---- MODULE Spec2Model ----
(***************************************************************************)
(* The gold global symbol table (gold/symtab.cc): the hash table keyed by  *)
(* (name, version), the symbol records, the forwarders map, the commons    *)
(* list, the linker-defined symbols, and the finalize pass.                *)
(*                                                                         *)
(* Records live on a heap modelled by the sequence syms: a record's        *)
(* identity (its C++ pointer) is its index, and NULL is 0.                 *)
(***************************************************************************)
EXTENDS Integers, Sequences, FiniteSets, TLC

VARIABLES
    pc,               \* "run", "finalized", or how the process ended
    size_,            \* Symbol_table::size_
    table_,           \* Symbol_table::table_: key -> record pointer (0 = NULL)
    syms,             \* the heap of Sized_symbol records
    forwarders_,      \* Symbol_table::forwarders_
    commons_,         \* Symbol_table::commons_
    saw_undefined_,   \* Symbol_table::saw_undefined_
    namepool_,        \* Symbol_table::namepool_: the interned strings
    offset_,          \* Symbol_table::offset_
    output_count_,    \* Symbol_table::output_count_
    sympool,          \* the output string pool finalize adds names to
    emitted,          \* the table keys the last finalize counted, in visit order
    out_view,         \* the symbol entries write_globals wrote, in order
    cur,              \* the object add_from_relobj / add_from_dynobj is in
    sympointers,      \* the (key, pointer) pairs stored in sympointers arrays
    first_endian,     \* the byte order of the first object ingested
    warnings_,        \* Warnings::warnings_: name -> [object, shndx, text]
    registered,       \* the (name, object, shndx) add_warning was called with
    locks,            \* the objects whose lock is held
    noting,           \* where note_warnings is, and whether finalize returned
    nops,             \* the number of calls made
    last,             \* the last call and what it returned
    hist,             \* the calls made so far, while they follow a named scenario
    def_keys,         \* the (name, version) pairs add_from_object stored with def
    undef_transitions \* the adds that took their record from not undefined to undefined

vars == <<pc, size_, table_, syms, forwarders_, commons_, saw_undefined_,
          namepool_, offset_, output_count_, sympool, emitted, out_view,
          cur, sympointers, first_endian, warnings_, registered, locks,
          noting, nops, last, hist, def_keys, undef_transitions>>

warn_vars == <<warnings_, registered, locks, noting>>

----------------------------------------------------------------------------
(* Bounds of the model. *)

\* The number of symbol-table calls in one run.
MaxOps == 3

\* The number of calls in one run of the narrower machine SpecDeep.
MaxDeepOps == 5

\* The number of calls in one run of the output machine SpecOut.
MaxOutOps == 4

\* The number of steps in one run of the ingestion machine SpecIngest, and
\* the number of symbols in one of its objects.
MaxIngestOps == 4
MaxSyms == 3

\* The number of calls in one run of the warnings machine SpecWarn.
MaxWarnOps == 5

\* The symbol names and the version names the inputs are drawn from.
Names == {"sym"}
Versions == {"V1", "V2"}

\* The input objects: one relocatable, one dynamic.
Objects == {"rel", "dyn"}

----------------------------------------------------------------------------
(* Program constants. *)

NULL == 0
\* The version key of an unversioned name (Stringpool keys are positive).
NoVersion == "<none>"

\* elfcpp::VERSYM_HIDDEN, VERSYM_VERSION, VER_NDX_LOCAL, VER_NDX_GLOBAL
VERSYM_HIDDEN == 32768
VERSYM_VERSION == 32767
VER_NDX_LOCAL == 0
VER_NDX_GLOBAL == 1

SHN_UNDEF == 0
SHN_LORESERVE == 65280
SHN_ABS == 65521
SHN_COMMON == 65522

\* The ELF class of the link (Symbol_table::size_ once an object was seen).
ElfSize == 32
\* elfcpp::Elf_sizes<32>::sym_size
SymSize == 16

is_dynamic(object) == object = "dyn"

Keys == Names \X (Versions \cup {NoVersion})

Max(a, b) == IF a >= b THEN a ELSE b

\* Body applied to the value of e, e being evaluated once.
With(e, Body(_)) == CHOOSE r \in {Body(v) : v \in {e}} : TRUE

----------------------------------------------------------------------------
(* Class Symbol / Sized_symbol. *)

\* A record straight from `new Sized_symbol<size>()`, before any init.
BlankSymbol ==
    [name_ |-> "", version_ |-> NoVersion, type_ |-> "NOTYPE",
     binding_ |-> "GLOBAL", visibility_ |-> "DEFAULT", nonvis_ |-> 0,
     got_offset_ |-> 0, is_target_special_ |-> FALSE, is_def_ |-> FALSE,
     is_forwarder_ |-> FALSE, in_dyn_ |-> FALSE, has_got_offset_ |-> FALSE,
     has_warning_ |-> FALSE,
     source_ |-> "FROM_OBJECT", object |-> "none", shnum |-> SHN_UNDEF,
     output_data |-> "none", offset_is_from_end |-> FALSE,
     output_segment |-> "none", offset_base |-> "none",
     value_ |-> 0, symsize_ |-> 0]

\* Symbol::init_fields: everything except u_ and source_.
init_fields(s, name, version, type, binding, visibility, nonvis) ==
    [s EXCEPT !.name_ = name, !.version_ = version, !.got_offset_ = 0,
              !.type_ = type, !.binding_ = binding,
              !.visibility_ = visibility, !.nonvis_ = nonvis,
              !.is_target_special_ = FALSE, !.is_def_ = FALSE,
              !.is_forwarder_ = FALSE, !.in_dyn_ = FALSE,
              !.has_got_offset_ = FALSE, !.has_warning_ = FALSE]

\* u_ is a union: setting one member leaves nothing of the others.
ClearUnion(s) ==
    [s EXCEPT !.object = "none", !.shnum = SHN_UNDEF,
              !.output_data = "none", !.offset_is_from_end = FALSE,
              !.output_segment = "none", !.offset_base = "none"]

\* init_from_object passing a NULL version to init_fields.
init_from_object_unversioned(s, name, version, object, sym) ==
    [ClearUnion(init_fields(s, name, NoVersion, sym.st_type, sym.st_bind,
                            sym.st_visibility, sym.st_nonvis))
        EXCEPT !.object = object, !.shnum = sym.st_shndx,
               !.source_ = "FROM_OBJECT", !.in_dyn_ = is_dynamic(object),
               !.value_ = sym.st_value, !.symsize_ = sym.st_size]

\* init_from_object leaving in_dyn_ clear, whatever the object.
init_from_object_not_in_dyn(s, name, version, object, sym) ==
    [ClearUnion(init_fields(s, name, version, sym.st_type, sym.st_bind,
                            sym.st_visibility, sym.st_nonvis))
        EXCEPT !.object = object, !.shnum = sym.st_shndx,
               !.source_ = "FROM_OBJECT",
               !.value_ = sym.st_value, !.symsize_ = sym.st_size]

\* Sized_symbol::init for SYM in OBJECT (with Symbol::init_base).
init_from_object(s, name, version, object, sym) ==
    [ClearUnion(init_fields(s, name, version, sym.st_type, sym.st_bind,
                            sym.st_visibility, sym.st_nonvis))
        EXCEPT !.object = object, !.shnum = sym.st_shndx,
               !.source_ = "FROM_OBJECT", !.in_dyn_ = is_dynamic(object),
               !.value_ = sym.st_value, !.symsize_ = sym.st_size]

\* Sized_symbol::init for a symbol defined in an Output_data.
init_in_output_data(s, name, od, value, symsize, type, binding, visibility, nonvis, offset_is_from_end) ==
    [ClearUnion(init_fields(s, name, NoVersion, type, binding, visibility,
                            nonvis))
        EXCEPT !.output_data = od, !.offset_is_from_end = offset_is_from_end,
               !.source_ = "IN_OUTPUT_DATA",
               !.value_ = value, !.symsize_ = symsize]

\* Sized_symbol::init for a symbol defined in an Output_segment.
init_in_output_segment(s, name, os, value, symsize, type, binding, visibility, nonvis, offset_base) ==
    [ClearUnion(init_fields(s, name, NoVersion, type, binding, visibility,
                            nonvis))
        EXCEPT !.output_segment = os, !.offset_base = offset_base,
               !.source_ = "IN_OUTPUT_SEGMENT",
               !.value_ = value, !.symsize_ = symsize]

\* init_as_constant leaving source_ as it was.
init_as_constant_keeps_source(s, name, value, symsize, type, binding, visibility, nonvis) ==
    [init_fields(s, name, NoVersion, type, binding, visibility, nonvis)
        EXCEPT !.value_ = value, !.symsize_ = symsize]

\* Sized_symbol::init for a symbol defined as a constant.
init_as_constant(s, name, value, symsize, type, binding, visibility, nonvis) ==
    [ClearUnion(init_fields(s, name, NoVersion, type, binding, visibility,
                            nonvis))
        EXCEPT !.source_ = "CONSTANT", !.value_ = value, !.symsize_ = symsize]

\* Symbol::is_undefined and Symbol::is_common (declared in symtab.h).
is_undefined(s) == s.source_ = "FROM_OBJECT" /\ s.shnum = SHN_UNDEF
is_common(s) == s.source_ = "FROM_OBJECT" /\ s.shnum = SHN_COMMON

----------------------------------------------------------------------------
(* The resolver (resolve.cc), from the merge table of the specification.   *)

VisRank(v) ==
    CASE v = "DEFAULT" -> 0
      [] v = "PROTECTED" -> 1
      [] v = "HIDDEN" -> 2
      [] v = "INTERNAL" -> 3

MostRestrictive(v1, v2) == IF VisRank(v1) >= VisRank(v2) THEN v1 ELSE v2

\* The class of a stored record: a linker-defined record is a definition.
ExistingClass(to) ==
    IF to.source_ # "FROM_OBJECT" THEN "def"
    ELSE IF to.shnum = SHN_UNDEF
         THEN (IF to.binding_ = "WEAK" THEN "weak_undef" ELSE "undef")
    ELSE IF to.shnum = SHN_COMMON THEN "common"
    ELSE IF to.binding_ = "WEAK" THEN "weak_def" ELSE "def"

IncomingClass(sym) ==
    IF sym.st_shndx = SHN_UNDEF
    THEN (IF sym.st_bind = "WEAK" THEN "weak_undef" ELSE "undef")
    ELSE IF sym.st_shndx = SHN_COMMON THEN "common"
    ELSE IF sym.st_bind = "WEAK" THEN "weak_def" ELSE "def"

ExistingIsDynamic(to) == to.source_ = "FROM_OBJECT" /\ is_dynamic(to.object)

\* What the merge does: "error", "override", "merge_common", "promote", "keep".
ResolveDecision(to, sym, object) ==
    LET e == ExistingClass(to)
        i == IncomingClass(sym)
    IN CASE e = "def" /\ i = "def" ->
              IF ~ExistingIsDynamic(to) /\ ~is_dynamic(object) THEN "error"
              ELSE IF ExistingIsDynamic(to) /\ ~is_dynamic(object)
                   THEN "override" ELSE "keep"
         [] e = "def" /\ i # "def" -> "keep"
         [] e = "weak_def" ->
              IF i = "def" THEN "override"
              ELSE IF i = "weak_def" /\ ExistingIsDynamic(to)
                      /\ ~is_dynamic(object)
                   THEN "override" ELSE "keep"
         [] e = "common" ->
              IF i = "def" THEN "override"
              ELSE IF i = "common" THEN "merge_common" ELSE "keep"
         [] e = "undef" ->
              IF i \in {"def", "weak_def", "common"} THEN "override" ELSE "keep"
         [] e = "weak_undef" ->
              IF i \in {"def", "weak_def", "common"} THEN "override"
              ELSE IF i = "undef" THEN "promote" ELSE "keep"

\* Symbol::override: the record takes the incoming symbol's definition.
override(to, sym, object) ==
    [ClearUnion(to)
        EXCEPT !.source_ = "FROM_OBJECT", !.object = object,
               !.shnum = sym.st_shndx, !.type_ = sym.st_type,
               !.binding_ = sym.st_bind, !.nonvis_ = sym.st_nonvis,
               !.value_ = sym.st_value, !.symsize_ = sym.st_size]

\* Symbol_table::resolve(to, sym, object): [sym: the record after, err].
Resolve(to, sym, object) ==
    LET d == ResolveDecision(to, sym, object)
        merged ==
            CASE d = "override" -> override(to, sym, object)
              [] d = "merge_common" ->
                    [to EXCEPT !.symsize_ = Max(to.symsize_, sym.st_size),
                               !.value_ = Max(to.value_, sym.st_value)]
              [] d = "promote" -> [to EXCEPT !.binding_ = "GLOBAL"]
              [] OTHER -> to
    IN [err |-> d = "error",
        sym |-> [merged EXCEPT
                   !.visibility_ = MostRestrictive(to.visibility_,
                                                   sym.st_visibility),
                   !.in_dyn_ = to.in_dyn_ \/ is_dynamic(object)]]

\* Symbol_table::resolve(to, from): FROM converted back to an ELF symbol.
reconstructed_elf(from) ==
    [st_value |-> from.value_, st_size |-> from.symsize_,
     st_bind |-> from.binding_, st_type |-> from.type_,
     st_visibility |-> from.visibility_, st_nonvis |-> from.nonvis_,
     st_shndx |-> from.shnum]

----------------------------------------------------------------------------
(* Class Symbol_table.  The operations below work on a value st holding    *)
(* the table's fields, and return an outcome [pc, st, ret]: pc is "run"    *)
(* when the call returned, "exit" after gold_exit, "abort" after a failed  *)
(* assertion and "segv" after a dereference of NULL.                       *)

EmptyMap == [k \in {} |-> NULL]

\* table_.insert(make_pair(key, snull)): an existing entry is kept.
TableInsert(t, key) ==
    IF key \in DOMAIN t THEN t
    ELSE [k \in DOMAIN t \cup {key} |-> IF k = key THEN NULL ELSE t[k]]

TableErase(t, key) == [k \in DOMAIN t \ {key} |-> t[k]]

MapSet(m, k, v) == [x \in DOMAIN m \cup {k} |-> IF x = k THEN v ELSE m[x]]

Outcome(p, st, ret) == [pc |-> p, st |-> st, ret |-> ret]

\* Symbol::shnum and Symbol::object are for FROM_OBJECT records only.
from_object_accessor_ok(s) == s.source_ = "FROM_OBJECT"

\* Symbol_table::make_forwarder(from, to), its assertions first.
make_forwarder_asserts(st, from, to) ==
    /\ from # to
    /\ ~st.syms[from].is_forwarder_
    /\ ~st.syms[to].is_forwarder_

\* make_forwarder without set_forwarder.
make_forwarder_unflagged(st, from, to) ==
    [st EXCEPT !.forwarders_ = MapSet(st.forwarders_, from, to)]

make_forwarder(st, from, to) ==
    [st EXCEPT !.forwarders_ = MapSet(st.forwarders_, from, to),
               !.syms[from].is_forwarder_ = TRUE]

\* Symbol_table::resolve_forwards(from); NULL stands for a failed assertion.
resolve_forwards(st, from) ==
    IF st.syms[from].is_forwarder_ /\ from \in DOMAIN st.forwarders_
    THEN st.forwarders_[from] ELSE NULL

\* Symbol_table::lookup(name, version): version NoVersion is the NULL version.
lookup(st, pool, name, version) ==
    IF name \notin pool THEN NULL
    ELSE IF version # NoVersion /\ version \notin pool THEN NULL
    ELSE IF <<name, version>> \notin DOMAIN st.table_ THEN NULL
    ELSE st.table_[<<name, version>>]

\* add_from_object, lines 339-351: both NAME/VERSION (ret) and NAME/NULL
\* (sym2) have entries, with different records.
AddMerge(st1, keydef, ret, sym2) ==
    IF sym2 = NULL THEN Outcome("segv", st1, NULL)
    ELSE IF ~from_object_accessor_ok(st1.syms[sym2])
    THEN Outcome("abort", st1, NULL)
    ELSE With(Resolve(st1.syms[ret], reconstructed_elf(st1.syms[sym2]),
                      st1.syms[sym2].object),
              LAMBDA r2 :
                IF r2.err THEN Outcome("exit", st1, NULL)
                ELSE With([st1 EXCEPT !.syms[ret] = r2.sym],
                          LAMBDA st2 :
                            IF ~make_forwarder_asserts(st2, sym2, ret)
                            THEN Outcome("abort", st1, NULL)
                            ELSE Outcome("run",
                                    [make_forwarder(st2, sym2, ret)
                                        EXCEPT !.table_[keydef] = ret],
                                    ret)))

\* add_from_object, lines 319-353: there is an entry for NAME/VERSION.
\* st.table_ already holds the entries inserted at lines 297-309.
AddExisting(st, object, name, version, def, sym, insdef_second) ==
    LET key == <<name, version>>
        keydef == <<name, NoVersion>>
        ret == st.table_[key]
    IN IF ret = NULL THEN Outcome("abort", st, NULL)
       ELSE With(Resolve(st.syms[ret], sym, object),
                 LAMBDA r1 :
                   IF r1.err THEN Outcome("exit", st, NULL)
                   ELSE With([st EXCEPT !.syms[ret] = r1.sym],
                             LAMBDA st1 :
                               IF ~def THEN Outcome("run", st1, ret)
                               ELSE IF insdef_second
                               THEN Outcome("run",
                                       [st1 EXCEPT !.table_[keydef] = ret],
                                       ret)
                               ELSE IF st1.table_[keydef] = ret
                               THEN Outcome("run", st1, ret)
                               ELSE AddMerge(st1, keydef, ret,
                                             st1.table_[keydef])))

\* AddAliased without line 370: the new NAME/VERSION entry is left NULL.
AddAliasedUnpublished(st, object, name, version, sym) ==
    LET ret == st.table_[<<name, NoVersion>>]
    IN IF ret = NULL THEN Outcome("segv", st, NULL)
       ELSE With(Resolve(st.syms[ret], sym, object),
                 LAMBDA r :
                   IF r.err THEN Outcome("exit", st, NULL)
                   ELSE Outcome("run", [st EXCEPT !.syms[ret] = r.sym], ret))

\* add_from_object, lines 362-371: NAME/VERSION is new, NAME/NULL exists.
AddAliased(st, object, name, version, sym) ==
    LET key == <<name, version>>
        keydef == <<name, NoVersion>>
        ret == st.table_[keydef]
    IN IF ret = NULL THEN Outcome("segv", st, NULL)
       ELSE With(Resolve(st.syms[ret], sym, object),
                 LAMBDA r :
                   IF r.err THEN Outcome("exit", st, NULL)
                   ELSE Outcome("run",
                           [st EXCEPT !.syms[ret] = r.sym,
                                      !.table_[key] = ret],
                           ret))

\* AddFresh erasing, after make_symbol returned NULL, the NAME/VERSION
\* entry only.
AddFreshEraseOne(st, object, name, version, def, sym, factory) ==
    LET key == <<name, version>>
        keydef == <<name, NoVersion>>
        ret == Len(st.syms) + 1
        rec == init_from_object(BlankSymbol, name, version, object, sym)
        t1 == [st.table_ EXCEPT ![key] = ret]
        t2 == IF def THEN [t1 EXCEPT ![keydef] = ret] ELSE t1
    IN IF factory = "reject"
       THEN Outcome("reject",
                    [st EXCEPT !.table_ = TableErase(st.table_, key)], NULL)
       ELSE Outcome("run",
                    [st EXCEPT !.syms = Append(st.syms, rec), !.table_ = t2],
                    ret)

\* add_from_object, lines 372-409: a new record, unless the target's
\* make_symbol returns NULL.
AddFresh(st, object, name, version, def, sym, factory) ==
    LET key == <<name, version>>
        keydef == <<name, NoVersion>>
        ret == Len(st.syms) + 1
        rec == init_from_object(BlankSymbol, name, version, object, sym)
        erased == IF ~def THEN TableErase(st.table_, key)
                  ELSE TableErase(TableErase(st.table_, keydef), key)
        t1 == [st.table_ EXCEPT ![key] = ret]
        t2 == IF def THEN [t1 EXCEPT ![keydef] = ret] ELSE t1
    IN IF factory = "reject"
       THEN Outcome("reject", [st EXCEPT !.table_ = erased], NULL)
       ELSE Outcome("run",
                    [st EXCEPT !.syms = Append(st.syms, rec), !.table_ = t2],
                    ret)

\* AddBookkeeping appending every record not seen as COMMON before the
\* call, without the test of line 419 that it is COMMON now.
AddBookkeepingUntested(st, ret, was_undefined, was_common) ==
    [st EXCEPT
       !.saw_undefined_ =
           IF ~was_undefined /\ is_undefined(st.syms[ret]) THEN @ + 1 ELSE @,
       !.commons_ = IF ~was_common THEN Append(@, ret) ELSE @]

\* add_from_object, lines 412-420: saw_undefined_ and commons_.
AddBookkeeping(st, ret, was_undefined, was_common) ==
    [st EXCEPT
       !.saw_undefined_ =
           IF ~was_undefined /\ is_undefined(st.syms[ret]) THEN @ + 1 ELSE @,
       !.commons_ =
           IF ~was_common /\ is_common(st.syms[ret]) THEN Append(@, ret)
           ELSE @]

\* add_from_object, lines 316-410, on the table sti that holds the
\* entries inserted at lines 297-309.
AddDispatch(sti, object, name, version, def, sym, factory, ins_second, insdef_second) ==
    IF ~ins_second
    THEN AddExisting(sti, object, name, version, def, sym, insdef_second)
    ELSE IF def /\ ~insdef_second
    THEN AddAliased(sti, object, name, version, sym)
    ELSE AddFresh(sti, object, name, version, def, sym, factory)

\* was_undefined and was_common, lines 326-327 and 359-360.
WasUndefined(st, key, ins_second) ==
    IF ins_second THEN FALSE
    ELSE IF st.table_[key] = NULL THEN FALSE
    ELSE is_undefined(st.syms[st.table_[key]])

\* WasCommon without line 327: was_common stays false.
WasCommonUnread(st, key, ins_second) == FALSE

WasCommon(st, key, ins_second) ==
    IF ins_second THEN FALSE
    ELSE IF st.table_[key] = NULL THEN FALSE
    ELSE is_common(st.syms[st.table_[key]])

\* Symbol_table::add_from_object.
add_from_object(st, object, name, version, def, sym, factory) ==
    LET key == <<name, version>>
        keydef == <<name, NoVersion>>
        ins_second == key \notin DOMAIN st.table_
        insdef_second == def /\ keydef \notin DOMAIN st.table_ /\ keydef # key
        t1 == TableInsert(st.table_, key)
        t2 == IF def THEN TableInsert(t1, keydef) ELSE t1
    IN With(AddDispatch([st EXCEPT !.table_ = t2], object, name, version, def,
                        sym, factory, ins_second, insdef_second),
            LAMBDA o :
              IF o.pc = "reject" THEN Outcome("run", o.st, NULL)
              ELSE IF o.pc # "run" THEN Outcome(o.pc, st, NULL)
              ELSE Outcome("run",
                      AddBookkeeping(o.st, o.ret,
                                     WasUndefined(st, key, ins_second),
                                     WasCommon(st, key, ins_second)),
                      o.ret))

----------------------------------------------------------------------------
(* Linker-defined symbols. *)

\* What define_special_symbol hands back: [pc, st, pool, ret, fresh, note].
\* ret is the record to initialise (NULL: none); fresh says it is new.
Special(p, s, pl, r, f, n) ==
    [pc |-> p, st |-> s, pool |-> pl, ret |-> r, fresh |-> f, note |-> n]

\* SpecialNotReferenced canonicalizing NAME in the name pool before it
\* returns.
SpecialNotReferencedInterned(st, pool, name) ==
    Special("run", st, pool \cup {name}, NULL, FALSE, "not_referenced")

\* define_special_symbol, lines 662-663: with only_if_ref, a name that is
\* absent or not undefined is left alone.
SpecialNotReferenced(st, pool, name) ==
    Special("run", st, pool, NULL, FALSE, "not_referenced")

\* Symbol_table::define_special_symbol.
define_special_symbol(st, pool, name, only_if_ref, factory) ==
    LET key == <<name, NoVersion>>
        found == lookup(st, pool, name, NoVersion)
        pool1 == pool \cup {name}
        ins_second == key \notin DOMAIN st.table_
        t1 == TableInsert(st.table_, key)
        oldsym == IF only_if_ref THEN found ELSE t1[key]
        new == Len(st.syms) + 1
    IN IF only_if_ref /\ (found = NULL \/ ~is_undefined(st.syms[found]))
       THEN SpecialNotReferenced(st, pool, name)
       ELSE IF ~only_if_ref /\ ins_second
       THEN (IF factory = "reject"
             THEN Special("run", [st EXCEPT !.table_ = t1], pool1, NULL, FALSE,
                          "rejected")
             ELSE Special("run",
                          [st EXCEPT !.table_ = [t1 EXCEPT ![key] = new],
                                     !.syms = Append(st.syms, BlankSymbol)],
                          pool1, new, TRUE, "new"))
       ELSE LET pl == IF only_if_ref THEN pool ELSE pool1
            IN IF oldsym = NULL
               THEN Special("abort", st, pool, NULL, FALSE, "assert")
               ELSE IF st.syms[oldsym].source_ # "FROM_OBJECT"
               THEN Special("abort", st, pool, NULL, FALSE, "assert")
               ELSE IF /\ st.syms[oldsym].shnum # SHN_UNDEF
                       /\ st.syms[oldsym].shnum # SHN_COMMON
                       /\ ~is_dynamic(st.syms[oldsym].object)
               THEN Special("run", st, pl, NULL, FALSE, "multiple_definition")
               ELSE Special("run", st, pl, oldsym, FALSE, "override")

\* Symbol_table::do_define_in_output_data.
do_define_in_output_data(st, pool, name, od, value, symsize, type, binding, visibility, nonvis, offset_is_from_end, only_if_ref, factory) ==
    With(define_special_symbol(st, pool, name, only_if_ref, factory),
         LAMBDA d :
           IF d.pc # "run" \/ d.ret = NULL THEN d
           ELSE [d EXCEPT !.st.syms[d.ret] =
                init_in_output_data(@, name, od, value, symsize, type,
                                    binding, visibility, nonvis,
                                    offset_is_from_end)])

\* Symbol_table::do_define_in_output_segment.
do_define_in_output_segment(st, pool, name, os, value, symsize, type, binding, visibility, nonvis, offset_base, only_if_ref, factory) ==
    With(define_special_symbol(st, pool, name, only_if_ref, factory),
         LAMBDA d :
           IF d.pc # "run" \/ d.ret = NULL THEN d
           ELSE [d EXCEPT !.st.syms[d.ret] =
                init_in_output_segment(@, name, os, value, symsize, type,
                                       binding, visibility, nonvis,
                                       offset_base)])

\* Symbol_table::do_define_as_constant.
do_define_as_constant(st, pool, name, value, symsize, type, binding, visibility, nonvis, only_if_ref, factory) ==
    With(define_special_symbol(st, pool, name, only_if_ref, factory),
         LAMBDA d :
           IF d.pc # "run" \/ d.ret = NULL THEN d
           ELSE [d EXCEPT !.st.syms[d.ret] =
                init_as_constant(@, name, value, symsize, type, binding,
                                 visibility, nonvis)])

----------------------------------------------------------------------------
(* The layout the finalize pass reads: output sections, data and segments. *)

OutputDatas == {"bss_out"}
OutputSegments == {"data_seg"}

\* Output_data::address, data_size and out_shndx.
od_address(od) == 8192
od_data_size(od) == 256
od_out_shndx(od) == 3

\* Output_segment::vaddr, memsz and filesz.
os_vaddr(os) == 4096
os_memsz(os) == 512
os_filesz(os) == 384

\* Relobj::output_section(shnum, &secoff): section 1 of the relocatable
\* object is laid out, any other section has no output section (NULL).
output_section(object, shnum) ==
    IF shnum = 1
    THEN [os |-> "text_out", address |-> 1024, secoff |-> 64, out_shndx |-> 1]
    ELSE [os |-> "NULL", address |-> 0, secoff |-> 0, out_shndx |-> 0]

\* Relobj::is_section_included: sections 1 and 2 are taken from the input,
\* section 3 is not (a discarded group member); every section of the object
\* "out", the output file read back, is.
is_section_included(object, shndx) == object = "out" \/ shndx # 3

\* relobj_symbol passing every symbol through as it is.
relobj_symbol_unchanged(object, sym) == sym

\* add_from_relobj, lines 468-481: a symbol defined in a section that is
\* not included is treated as undefined.
relobj_symbol(object, sym) ==
    IF /\ sym.st_shndx # SHN_UNDEF
       /\ sym.st_shndx < SHN_LORESERVE
       /\ ~is_section_included(object, sym.st_shndx)
    THEN [sym EXCEPT !.st_shndx = SHN_UNDEF]
    ELSE sym

\* align_address(off, size >> 3)
align_address(off, align) == ((off + align - 1) \div align) * align

----------------------------------------------------------------------------
(* Finalize. *)

\* FinalValue without lines 1051-1052: offset_is_from_end is ignored.
FinalValueFromStart(sym) ==
    CASE sym.source_ = "IN_OUTPUT_DATA" ->
            [act |-> "set",
             value |-> sym.value_ + od_address(sym.output_data)]
      [] sym.source_ = "CONSTANT" -> [act |-> "set", value |-> sym.value_]
      [] OTHER -> [act |-> "set", value |-> 0]

\* The switch of sized_finalize on one record, lines 1000-1082:
\* [act: "set" | "skip" | "exit", value].  Elf_Addr arithmetic is modulo
\* 2^32; every address, size and offset of this model is below 2^16 and a
\* value is added to at most MaxOps times, so no sum reaches 2^32.
FinalValue(sym) ==
    CASE sym.source_ = "FROM_OBJECT" ->
            IF sym.shnum >= SHN_LORESERVE /\ sym.shnum # SHN_ABS
            THEN [act |-> "exit", value |-> 0]
            ELSE IF is_dynamic(sym.object) THEN [act |-> "set", value |-> 0]
            ELSE IF sym.shnum = SHN_UNDEF THEN [act |-> "set", value |-> 0]
            ELSE IF sym.shnum = SHN_ABS
                 THEN [act |-> "set", value |-> sym.value_]
            ELSE LET sec == output_section(sym.object, sym.shnum)
                 IN IF sec.os = "NULL" THEN [act |-> "skip", value |-> 0]
                    ELSE [act |-> "set",
                          value |-> sym.value_ + sec.address + sec.secoff]
      [] sym.source_ = "IN_OUTPUT_DATA" ->
            [act |-> "set",
             value |-> sym.value_ + od_address(sym.output_data)
                       + (IF sym.offset_is_from_end
                          THEN od_data_size(sym.output_data) ELSE 0)]
      [] sym.source_ = "IN_OUTPUT_SEGMENT" ->
            [act |-> "set",
             value |-> sym.value_ + os_vaddr(sym.output_segment)
                       + (CASE sym.offset_base = "SEGMENT_START" -> 0
                            [] sym.offset_base = "SEGMENT_END" ->
                                 os_memsz(sym.output_segment)
                            [] sym.offset_base = "SEGMENT_BSS" ->
                                 os_filesz(sym.output_segment))]
      [] sym.source_ = "CONSTANT" -> [act |-> "set", value |-> sym.value_]

\* One visit of the loop of sized_finalize, lines 991-1089, to the entry
\* whose value is p.  acc is [pc, syms, count, off, pool].
FinalizeVisit(acc, p) ==
    IF p = NULL THEN [acc EXCEPT !.pc = "segv"]
    ELSE With(FinalValue(acc.syms[p]),
              LAMBDA f :
                IF f.act = "exit" THEN [acc EXCEPT !.pc = "exit"]
                ELSE IF f.act = "skip" THEN acc
                ELSE [acc EXCEPT !.syms[p].value_ = f.value,
                                 !.pool = @ \cup {acc.syms[p].name_},
                                 !.count = @ + 1,
                                 !.off = @ + SymSize])

\* The entry an iteration over the entries KEYS of table_ comes to first.
\* The order of an unordered_map is unspecified, but it is the same for
\* every iteration over a table that was not modified in between.
NextKey(keys) == CHOOSE x \in keys : TRUE

\* The loop of sized_finalize over the entries KEYS still to visit; order
\* keeps the keys of the entries that were counted.
RECURSIVE FinalizeLoop(_, _, _)
FinalizeLoop(table, keys, acc) ==
    IF keys = {} \/ acc.pc # "run" THEN acc
    ELSE With(NextKey(keys),
              LAMBDA k :
                With(FinalizeVisit(acc, table[k]),
                     LAMBDA a :
                       FinalizeLoop(table, keys \ {k},
                           IF a.count > acc.count
                           THEN [a EXCEPT !.order = Append(@, k)] ELSE a)))

\* Symbol_table::sized_finalize(off, pool): [pc, syms, count, off, pool,
\* offset, order], off being the returned offset and offset the new offset_.
sized_finalize(st, off, pool) ==
    With(align_address(off, ElfSize \div 8),
         LAMBDA start :
           With(FinalizeLoop(st.table_, DOMAIN st.table_,
                             [pc |-> "run", syms |-> st.syms, count |-> 0,
                              off |-> start, pool |-> pool, order |-> <<>>]),
                LAMBDA a :
                  [pc |-> IF a.pc = "run" THEN "finalized" ELSE a.pc,
                   syms |-> a.syms, count |-> a.count, off |-> a.off,
                   pool |-> a.pool, offset |-> start, order |-> a.order]))

----------------------------------------------------------------------------
(* Writing the global symbols. *)

\* WriteShndx giving a symbol without an output section the index
\* SHN_UNDEF instead of skipping it.
WriteShndxKeepsDiscarded(sym) ==
    CASE sym.source_ = "FROM_OBJECT" ->
            IF sym.shnum >= SHN_LORESERVE /\ sym.shnum # SHN_ABS
            THEN [act |-> "exit", shndx |-> 0]
            ELSE IF is_dynamic(sym.object)
                 THEN [act |-> "write", shndx |-> SHN_UNDEF]
            ELSE IF sym.shnum = SHN_UNDEF \/ sym.shnum = SHN_ABS
                 THEN [act |-> "write", shndx |-> sym.shnum]
            ELSE [act |-> "write",
                  shndx |-> output_section(sym.object, sym.shnum).out_shndx]
      [] sym.source_ = "IN_OUTPUT_DATA" ->
            [act |-> "write", shndx |-> od_out_shndx(sym.output_data)]
      [] OTHER -> [act |-> "write", shndx |-> SHN_ABS]

\* WriteShndx without the test of lines 1155-1159 for a dynamic object.
WriteShndxDynamicAsRelocatable(sym) ==
    CASE sym.source_ = "FROM_OBJECT" ->
            IF sym.shnum >= SHN_LORESERVE /\ sym.shnum # SHN_ABS
            THEN [act |-> "exit", shndx |-> 0]
            ELSE IF sym.shnum = SHN_UNDEF \/ sym.shnum = SHN_ABS
                 THEN [act |-> "write", shndx |-> sym.shnum]
            ELSE LET sec == output_section(sym.object, sym.shnum)
                 IN IF sec.os = "NULL" THEN [act |-> "skip", shndx |-> 0]
                    ELSE [act |-> "write", shndx |-> sec.out_shndx]
      [] sym.source_ = "IN_OUTPUT_DATA" ->
            [act |-> "write", shndx |-> od_out_shndx(sym.output_data)]
      [] OTHER -> [act |-> "write", shndx |-> SHN_ABS]

\* The switch of sized_write_globals on one record, lines 1139-1189:
\* [act: "write" | "skip" | "exit", shndx].
WriteShndx(sym) ==
    CASE sym.source_ = "FROM_OBJECT" ->
            IF sym.shnum >= SHN_LORESERVE /\ sym.shnum # SHN_ABS
            THEN [act |-> "exit", shndx |-> 0]
            ELSE IF is_dynamic(sym.object)
                 THEN [act |-> "write", shndx |-> SHN_UNDEF]
            ELSE IF sym.shnum = SHN_UNDEF \/ sym.shnum = SHN_ABS
                 THEN [act |-> "write", shndx |-> sym.shnum]
            ELSE LET sec == output_section(sym.object, sym.shnum)
                 IN IF sec.os = "NULL" THEN [act |-> "skip", shndx |-> 0]
                    ELSE [act |-> "write", shndx |-> sec.out_shndx]
      [] sym.source_ = "IN_OUTPUT_DATA" ->
            [act |-> "write", shndx |-> od_out_shndx(sym.output_data)]
      [] sym.source_ = "IN_OUTPUT_SEGMENT" ->
            [act |-> "write", shndx |-> SHN_ABS]
      [] sym.source_ = "CONSTANT" -> [act |-> "write", shndx |-> SHN_ABS]

\* The symbol entry of lines 1191-1198 for the record sym of entry k.
OutputSym(k, sym, shndx) ==
    [key |-> k, st_name |-> sym.name_, st_value |-> sym.value_,
     st_size |-> sym.symsize_, st_bind |-> sym.binding_,
     st_type |-> sym.type_, st_visibility |-> sym.visibility_,
     st_nonvis |-> sym.nonvis_, st_shndx |-> shndx]

\* One visit of the loop of sized_write_globals, lines 1132-1201, to the
\* entry k.  acc is [pc, view]; the view has room for count entries, and
\* pc "oob" marks a write past its end.
WriteVisit(st, count, acc, k) ==
    IF st.table_[k] = NULL THEN [acc EXCEPT !.pc = "segv"]
    ELSE With(WriteShndx(st.syms[st.table_[k]]),
              LAMBDA w :
                IF w.act = "exit" THEN [acc EXCEPT !.pc = "exit"]
                ELSE IF w.act = "skip" THEN acc
                ELSE IF Len(acc.view) * SymSize >= count * SymSize
                THEN [acc EXCEPT !.pc = "oob"]
                ELSE [acc EXCEPT !.view =
                         Append(@, OutputSym(k, st.syms[st.table_[k]],
                                             w.shndx))])

RECURSIVE WriteLoop(_, _, _, _)
WriteLoop(st, count, keys, acc) ==
    IF keys = {} \/ acc.pc # "run" THEN acc
    ELSE With(NextKey(keys),
              LAMBDA k :
                With(WriteVisit(st, count, acc, k),
                     LAMBDA a : WriteLoop(st, count, keys \ {k}, a)))

\* Symbol_table::sized_write_globals: [pc, view], the view being the
\* output_count_ * sym_size bytes at offset_, as the entries written.
sized_write_globals(st, count) ==
    WriteLoop(st, count, DOMAIN st.table_, [pc |-> "run", view |-> <<>>])

----------------------------------------------------------------------------
(* Reading the symbols of an input object. *)

\* The objects of the ingestion machine: those above, a 64-bit relocatable
\* object and a big-endian one.
IngestObjects == Objects \cup {"rel64", "relbe"}

\* The template parameters size and big_endian an object is read with.
obj_size(object) == IF object = "rel64" THEN 64 ELSE ElfSize
obj_big_endian(object) == object = "relbe"
Endian(object) == IF obj_big_endian(object) THEN "big" ELSE "little"

\* The C strings of the model and their characters.
Strings == {"sym", "V1", "V2", "sym@V1", "sym@@V1", "sym@@V2"}

Chars(str) ==
    CASE str = "sym" -> <<"s", "y", "m">>
      [] str = "V1" -> <<"V", "1">>
      [] str = "V2" -> <<"V", "2">>
      [] str = "sym@V1" -> <<"s", "y", "m", "@", "V", "1">>
      [] str = "sym@@V1" -> <<"s", "y", "m", "@", "@", "V", "1">>
      [] str = "sym@@V2" -> <<"s", "y", "m", "@", "@", "V", "2">>

\* The string made of these characters.
Text(chars) == CHOOSE str \in Strings : Chars(str) = chars

\* strchr(chars, c): the position of the first c, 0 for NULL.
strchr(chars, c) ==
    IF \E i \in DOMAIN chars : chars[i] = c
    THEN CHOOSE i \in DOMAIN chars :
            chars[i] = c /\ \A j \in 1..(i - 1) : chars[j] # c
    ELSE 0

\* The string tables (sym_names) of the relocatable and of the dynamic
\* objects: the string at offset st_name is entry st_name + 1, and
\* sym_name_size is the number of entries.
RelNames == <<"sym", "sym@V1", "sym@@V1", "sym@@V2">>
DynNames == <<"sym", "V1">>

\* A NULL entry of a version map.
NullStr == "<NULL>"

\* The version_map of the dynamic objects, entry v + 1 for index v.
VersionMap == <<NullStr, NullStr, "V1", "V2", NullStr>>

\* relobj_name taking "@@" for a separator like "@": def is never set.
relobj_name_never_default(str) ==
    LET chars == Chars(str)
        at == strchr(chars, "@")
    IN IF at = 0
       THEN [name |-> str, version |-> NoVersion, def |-> FALSE]
       ELSE LET two == at + 1 <= Len(chars) /\ chars[at + 1] = "@"
                verstart == IF two THEN at + 2 ELSE at + 1
            IN [name |-> Text(SubSeq(chars, 1, at - 1)),
                version |-> Text(SubSeq(chars, verstart, Len(chars))),
                def |-> FALSE]

\* add_from_relobj, lines 483-514: the name, the version and def that the
\* symbol string stands for.
relobj_name(str) ==
    LET chars == Chars(str)
        at == strchr(chars, "@")
    IN IF at = 0
       THEN [name |-> str, version |-> NoVersion, def |-> FALSE]
       ELSE LET def == at + 1 <= Len(chars) /\ chars[at + 1] = "@"
                verstart == IF def THEN at + 2 ELSE at + 1
            IN [name |-> Text(SubSeq(chars, 1, at - 1)),
                version |-> Text(SubSeq(chars, verstart, Len(chars))),
                def |-> def]

\* What one iteration of an ingestion loop hands back:
\* [pc, st, pool, ret, note, key, def].
Iteration(p, st, pool, ret, note, key, def) ==
    [pc |-> p, st |-> st, pool |-> pool, ret |-> ret, note |-> note,
     key |-> key, def |-> def]

NoKey == <<"none", NoVersion>>

\* The call of add_from_object at the end of an iteration.
IterationAdd(st, pool, object, name, version, def, sym, factory) ==
    With(add_from_object(st, object, name, version, def, sym, factory),
         LAMBDA o :
           Iteration(o.pc, o.st, pool, o.ret,
                     IF o.pc = "run" /\ o.ret = NULL THEN "rejected"
                     ELSE "added",
                     <<name, version>>, def))

\* add_from_relobj, lines 466-516: the symbol sym whose name is the string
\* str is added.
relobj_add(st, pool, object, str, sym, factory) ==
    With(relobj_name(str),
         LAMBDA n :
           IterationAdd(st,
               pool \cup {n.name}
                    \cup (IF n.version = NoVersion THEN {} ELSE {n.version}),
               object, n.name, n.version, n.def,
               relobj_symbol(object, sym), factory))

\* One iteration of the loop of add_from_relobj, lines 451-517.
relobj_iteration(st, pool, object, st_name, sym, factory) ==
    IF st_name >= Len(RelNames)
    THEN Iteration("exit", st, pool, NULL, "bad_name", NoKey, FALSE)
    ELSE relobj_add(st, pool, object, RelNames[st_name + 1], sym, factory)

\* dynobj_version taking a NULL entry of the version map for no version.
dynobj_version_null_unversioned(name, sym, has_versym, vs) ==
    IF ~has_versym THEN [act |-> "add", version |-> NoVersion, def |-> FALSE]
    ELSE LET hidden == (vs \div VERSYM_HIDDEN) % 2 = 1
             v == vs % (VERSYM_VERSION + 1)
         IN IF v = VER_NDX_LOCAL
            THEN [act |-> "skip", version |-> NoVersion, def |-> FALSE]
            ELSE IF v = VER_NDX_GLOBAL
            THEN [act |-> "add", version |-> NoVersion, def |-> FALSE]
            ELSE IF v >= Len(VersionMap)
            THEN [act |-> "range", version |-> NoVersion, def |-> FALSE]
            ELSE IF VersionMap[v + 1] = NullStr
            THEN [act |-> "add", version |-> NoVersion, def |-> FALSE]
            ELSE IF sym.st_shndx = SHN_ABS /\ name = VersionMap[v + 1]
            THEN [act |-> "marker", version |-> VersionMap[v + 1],
                  def |-> FALSE]
            ELSE [act |-> "add", version |-> VersionMap[v + 1],
                  def |-> ~hidden /\ sym.st_shndx # SHN_UNDEF]

\* dynobj_version reading def from the hidden bit alone.
dynobj_version_def_if_visible(name, sym, has_versym, vs) ==
    IF ~has_versym THEN [act |-> "add", version |-> NoVersion, def |-> FALSE]
    ELSE LET hidden == (vs \div VERSYM_HIDDEN) % 2 = 1
             v == vs % (VERSYM_VERSION + 1)
         IN IF v = VER_NDX_LOCAL
            THEN [act |-> "skip", version |-> NoVersion, def |-> FALSE]
            ELSE IF v = VER_NDX_GLOBAL
            THEN [act |-> "add", version |-> NoVersion, def |-> FALSE]
            ELSE IF v >= Len(VersionMap)
            THEN [act |-> "range", version |-> NoVersion, def |-> FALSE]
            ELSE IF VersionMap[v + 1] = NullStr
            THEN [act |-> "noname", version |-> NoVersion, def |-> FALSE]
            ELSE IF sym.st_shndx = SHN_ABS /\ name = VersionMap[v + 1]
            THEN [act |-> "marker", version |-> VersionMap[v + 1],
                  def |-> FALSE]
            ELSE [act |-> "add", version |-> VersionMap[v + 1],
                  def |-> ~hidden]

\* add_from_dynobj, lines 575-641: what the versym entry vs makes of the
\* symbol: [act, version, def], act being "add", "skip" (VER_NDX_LOCAL),
\* "range" and "noname" (the two fatal errors), or "marker" (a version
\* definition, added without a version).
dynobj_version(name, sym, has_versym, vs) ==
    IF ~has_versym THEN [act |-> "add", version |-> NoVersion, def |-> FALSE]
    ELSE LET hidden == (vs \div VERSYM_HIDDEN) % 2 = 1
             v == vs % (VERSYM_VERSION + 1)
         IN IF v = VER_NDX_LOCAL
            THEN [act |-> "skip", version |-> NoVersion, def |-> FALSE]
            ELSE IF v = VER_NDX_GLOBAL
            THEN [act |-> "add", version |-> NoVersion, def |-> FALSE]
            ELSE IF v >= Len(VersionMap)
            THEN [act |-> "range", version |-> NoVersion, def |-> FALSE]
            ELSE IF VersionMap[v + 1] = NullStr
            THEN [act |-> "noname", version |-> NoVersion, def |-> FALSE]
            ELSE IF sym.st_shndx = SHN_ABS /\ name = VersionMap[v + 1]
            THEN [act |-> "marker", version |-> VersionMap[v + 1],
                  def |-> FALSE]
            ELSE [act |-> "add", version |-> VersionMap[v + 1],
                  def |-> ~hidden /\ sym.st_shndx # SHN_UNDEF]

\* dynobj_iteration canonicalizing the name before it looks at the binding
\* and at the versym entry.
dynobj_iteration_interns_first(st, pool, object, has_versym, vs, st_name, sym, factory) ==
    IF st_name >= Len(DynNames)
    THEN Iteration("exit", st, pool, NULL, "bad_name", NoKey, FALSE)
    ELSE IF sym.st_bind = "LOCAL"
    THEN Iteration("run", st, pool \cup {DynNames[st_name + 1]}, NULL,
                   "ignored_local", NoKey, FALSE)
    ELSE With(DynNames[st_name + 1],
              LAMBDA name :
                With(dynobj_version(name, sym, has_versym, vs),
                     LAMBDA d :
                       CASE d.act = "skip" ->
                              Iteration("run", st, pool \cup {name}, NULL,
                                        "version_local", NoKey, FALSE)
                         [] d.act = "range" ->
                              Iteration("exit", st, pool \cup {name}, NULL,
                                        "bad_version_index", NoKey, FALSE)
                         [] d.act = "noname" ->
                              Iteration("exit", st, pool \cup {name}, NULL,
                                        "no_version_name", NoKey, FALSE)
                         [] d.act = "marker" ->
                              IterationAdd(st, pool \cup {name, d.version},
                                  object, name, NoVersion, FALSE, sym, factory)
                         [] d.act = "add" ->
                              IterationAdd(st,
                                  pool \cup {name}
                                       \cup (IF d.version = NoVersion THEN {}
                                             ELSE {d.version}),
                                  object, name, d.version, d.def, sym,
                                  factory)))

\* One iteration of the loop of add_from_dynobj, lines 556-642.
dynobj_iteration(st, pool, object, has_versym, vs, st_name, sym, factory) ==
    IF sym.st_bind = "LOCAL"
    THEN Iteration("run", st, pool, NULL, "ignored_local", NoKey, FALSE)
    ELSE IF st_name >= Len(DynNames)
    THEN Iteration("exit", st, pool, NULL, "bad_name", NoKey, FALSE)
    ELSE With(DynNames[st_name + 1],
              LAMBDA name :
                With(dynobj_version(name, sym, has_versym, vs),
                     LAMBDA d :
                       CASE d.act = "skip" ->
                              Iteration("run", st, pool, NULL,
                                        "version_local", NoKey, FALSE)
                         [] d.act = "range" ->
                              Iteration("exit", st, pool \cup {name}, NULL,
                                        "bad_version_index", NoKey, FALSE)
                         [] d.act = "noname" ->
                              Iteration("exit", st, pool \cup {name}, NULL,
                                        "no_version_name", NoKey, FALSE)
                         [] d.act = "marker" ->
                              IterationAdd(st, pool \cup {name, d.version},
                                  object, name, NoVersion, FALSE, sym, factory)
                         [] d.act = "add" ->
                              IterationAdd(st,
                                  pool \cup {name}
                                       \cup (IF d.version = NoVersion THEN {}
                                             ELSE {d.version}),
                                  object, name, d.version, d.def, sym,
                                  factory)))

\* add_from_relobj and add_from_dynobj, lines 437-446 and 534-543: size_
\* after the object's size was looked at, and whether the sizes agree.
\* The target of an object has the object's size.
size_after(size_before, object) ==
    IF size_before = 0 THEN obj_size(object) ELSE size_before

sizes_agree(size_before, object) ==
    obj_size(object) = size_after(size_before, object)

----------------------------------------------------------------------------
(* Warnings. *)

\* The text of a Warning_location that set_text was not called for.
NoText == <<>>

\* Object::section_contents(shndx): the contents of a section never change.
section_contents(object, shndx) == <<object, shndx>>

\* Warnings::add_warning, once the name is canonicalized: warnings_[name]
\* is made if need be and set(obj, shndx) overwrites object and shndx.
add_warning(warnings, name, obj, shndx) ==
    MapSet(warnings, name,
           [object |-> obj, shndx |-> shndx,
            text |-> IF name \in DOMAIN warnings THEN warnings[name].text
                     ELSE NoText])

\* note_warnings, lines 1228-1231: the name is that of a record of the
\* object that has the warning.
warning_applies(st, pool, warnings, name) ==
    LET sym == lookup(st, pool, name, NoVersion)
    IN /\ sym # NULL
       /\ st.syms[sym].source_ = "FROM_OBJECT"
       /\ st.syms[sym].object = warnings[name].object

\* note_warnings, line 1232: set_has_warning.
set_has_warning(syms_before, pool, table, name) ==
    [syms_before EXCEPT ![table[<<name, NoVersion>>]].has_warning_ = TRUE]

\* note_warnings, lines 1242-1244: the section is read and set_text called.
set_text(warnings, name) ==
    [warnings EXCEPT ![name].text =
        section_contents(warnings[name].object, warnings[name].shndx)]

\* Task_locker_obj<Object>: its constructor takes the lock of the object.
Task_locker_acquire(held, object) == held \cup {object}

\* A Task_locker_obj whose destructor leaves the lock held.
Task_locker_release_kept(held, object) == held

\* Task_locker_obj<Object>: its destructor releases the lock.
Task_locker_release(held, object) == held \ {object}

\* The loop of Warnings::note_warnings over the names still to visit:
\* [syms, warnings].
RECURSIVE NoteLoop(_, _, _, _)
NoteLoop(st, pool, names, warnings) ==
    IF names = {} THEN [syms |-> st.syms, warnings |-> warnings]
    ELSE With(NextKey(names),
              LAMBDA name :
                IF warning_applies(st, pool, warnings, name)
                THEN NoteLoop([st EXCEPT !.syms =
                                  set_has_warning(st.syms, pool, st.table_,
                                                  name)],
                              pool, names \ {name}, set_text(warnings, name))
                ELSE NoteLoop(st, pool, names \ {name}, warnings))

\* Warnings::note_warnings(symtab).
note_warnings(st, pool, warnings) ==
    NoteLoop(st, pool, DOMAIN warnings, warnings)

\* Warnings::issue_warning(sym, location): its two assertions.
issue_warning_asserts(st, warnings, sym) ==
    /\ st.syms[sym].has_warning_
    /\ st.syms[sym].name_ \in DOMAIN warnings

\* noting while note_warnings is not running: todo are the names still to
\* visit, at the name whose block of lines 1240-1245 is being run and
\* phase the place in that block.
NotNoting == [todo |-> {}, at |-> "none", phase |-> "idle", returned |-> FALSE]

----------------------------------------------------------------------------
(* The inputs of the calls. *)

ElfSym(bind, shndx, value, size) ==
    [st_bind |-> bind, st_shndx |-> shndx, st_value |-> value,
     st_size |-> size, st_type |-> "OBJECT", st_visibility |-> "DEFAULT",
     st_nonvis |-> 0]

\* The ELF symbols the objects hold: an undefined reference, a strong
\* definition in section 1, one in section 2 (included, but without an
\* output section), one in section 3 (not included), two commons of
\* different size, and a symbol with local binding.
SymInputs ==
    {ElfSym("GLOBAL", SHN_UNDEF, 0, 0),
     ElfSym("GLOBAL", 1, 16, 4),
     ElfSym("GLOBAL", 2, 16, 4),
     ElfSym("GLOBAL", 3, 0, 0),
     ElfSym("GLOBAL", SHN_COMMON, 4, 4), ElfSym("GLOBAL", SHN_COMMON, 8, 8),
     ElfSym("LOCAL", 1, 16, 4)}

\* What the target's symbol factory does: has_make_symbol() false or a
\* record from make_symbol() ("alloc"), or NULL from make_symbol().
FactoryOutcomes == {"alloc", "reject"}

OffsetBases == {"SEGMENT_START", "SEGMENT_END", "SEGMENT_BSS"}

\* The values define_as_constant is called with.
ConstantValues == {7}

\* The file offsets finalize is called with.
FinalizeOffsets == {0, 6}

NoSym ==
    [st_bind |-> "none", st_shndx |-> SHN_UNDEF, st_value |-> 0,
     st_size |-> 0, st_type |-> "none", st_visibility |-> "none",
     st_nonvis |-> 0]

\* A call and its result, for last and hist.
NoCall ==
    [op |-> "none", object |-> "none", name |-> "none", version |-> NoVersion,
     def |-> FALSE, sym |-> NoSym, where |-> "none", base |-> "none",
     from_end |-> FALSE, only_if_ref |-> FALSE, value |-> 0,
     factory |-> "none", ret |-> NULL, note |-> "none", end |-> "run"]

----------------------------------------------------------------------------
(* The scenarios hist follows. *)

Scenarios == {"forwarder_collision", "default_aliasing", "linker_defined_edata"}

ScenarioLen(sc) ==
    CASE sc = "forwarder_collision" -> 2
      [] sc = "default_aliasing" -> 3
      [] sc = "linker_defined_edata" -> 3

IsAdd(c, object, version, def) ==
    /\ c.op = "add_from_object"
    /\ c.object = object
    /\ c.name = "sym"
    /\ c.version = version
    /\ c.def = def
    /\ c.ret # NULL

\* Call number i of scenario sc.
ScenarioStep(sc, i, c) ==
    CASE sc = "forwarder_collision" ->
            IF i = 1 THEN IsAdd(c, "rel", NoVersion, FALSE)
            ELSE IsAdd(c, "dyn", "V1", TRUE)
      [] sc = "default_aliasing" ->
            IF i = 1 THEN IsAdd(c, "dyn", "V1", TRUE)
            ELSE IF i = 2 THEN IsAdd(c, "dyn", "V1", FALSE)
            ELSE IsAdd(c, "rel", NoVersion, FALSE)
      [] sc = "linker_defined_edata" ->
            IF i = 1
            THEN /\ c.op = "add_from_object"
                 /\ c.name = "sym"
                 /\ c.version = NoVersion
                 /\ c.sym.st_shndx = SHN_UNDEF
                 /\ c.ret # NULL
            ELSE IF i = 2
            THEN /\ c.op = "define_in_output_data"
                 /\ c.name = "sym"
                 /\ c.value = 0
                 /\ c.from_end
                 /\ c.only_if_ref
            ELSE c.op = "finalize"

Follows(sc, h) ==
    /\ Len(h) <= ScenarioLen(sc)
    /\ \A i \in 1..Len(h) : ScenarioStep(sc, i, h[i])

Off == <<[NoCall EXCEPT !.op = "off"]>>

\* hist after call c: the calls so far while they are the start of a
\* scenario and every call returned, Off from then on.
NextHist(h, c) ==
    IF h # Off /\ c.end \in {"run", "finalized"}
       /\ \E sc \in Scenarios : Follows(sc, Append(h, c))
    THEN Append(h, c) ELSE Off

----------------------------------------------------------------------------
(* The state machine. *)

\* cur when no object is being read, and while the symbols of one are:
\* left is the number of symbols still to read.
NoObject == [kind |-> "none", object |-> "none", left |-> 0,
             has_versym |-> FALSE]

\* What last keeps of a call: which it was and how it ended.
\* Of an iteration of an ingestion loop that called add_from_object it
\* also keeps the name, the version and def it passed.
Brief(c) ==
    [op |-> c.op, ret |-> c.ret, note |-> c.note, end |-> c.end,
     passed |-> IF c.op \in {"relobj_symbol", "dynobj_symbol"}
                   /\ c.name # "none"
                THEN <<c.name, c.version, c.def>> ELSE <<>>]

TableState ==
    [table_ |-> table_, syms |-> syms, forwarders_ |-> forwarders_,
     commons_ |-> commons_, saw_undefined_ |-> saw_undefined_]

Init ==
    /\ pc = "run"
    /\ size_ = 0
    /\ table_ = EmptyMap
    /\ syms = <<>>
    /\ forwarders_ = EmptyMap
    /\ commons_ = <<>>
    /\ saw_undefined_ = 0
    /\ namepool_ = {}
    /\ offset_ = 0
    /\ output_count_ = 0
    /\ sympool = {}
    /\ emitted = <<>>
    /\ out_view = <<>>
    /\ cur = NoObject
    /\ sympointers = {}
    /\ first_endian = "none"
    /\ warnings_ = EmptyMap
    /\ registered = {}
    /\ locks = {}
    /\ noting = NotNoting
    /\ nops = 0
    /\ last = Brief(NoCall)
    /\ hist = <<>>
    /\ def_keys = {}
    /\ undef_transitions = 0

\* The table's fields after a call that returned or ended the process.
SetTable(p, st) ==
    /\ pc' = p
    /\ table_' = st.table_
    /\ syms' = st.syms
    /\ forwarders_' = st.forwarders_
    /\ commons_' = st.commons_
    /\ saw_undefined_' = st.saw_undefined_

Record(c) ==
    /\ nops' = nops + 1
    /\ last' = Brief(c)
    /\ hist' = NextHist(hist, c)

\* add_from_dynobj, lines 560-562: a symbol with local binding is ignored.
dynobj_ignores(object, sym) == is_dynamic(object) /\ sym.st_bind = "LOCAL"

\* One symbol of add_from_relobj (object "rel") or add_from_dynobj (object
\* "dyn"): the name and version are interned, then add_from_object runs.
AddFromObject(object, name, version, def, sym, factory) ==
    /\ pc = "run"
    /\ def => version # NoVersion
    /\ (is_dynamic(object) /\ def) => sym.st_shndx # SHN_UNDEF
    /\ cur = NoObject
    /\ size_' = ElfSize
    /\ first_endian' = IF first_endian = "none" THEN Endian(object)
                       ELSE first_endian
    /\ UNCHANGED <<offset_, output_count_, sympool, emitted, out_view, cur>>
    /\ UNCHANGED warn_vars
    /\ IF dynobj_ignores(object, sym)
       THEN /\ Record([NoCall EXCEPT !.op = "add_from_object",
                         !.object = object, !.name = name,
                         !.version = version, !.def = def, !.sym = sym,
                         !.factory = factory, !.note = "ignored_local"])
            /\ UNCHANGED <<pc, table_, syms, forwarders_, commons_,
                           saw_undefined_, namepool_, sympointers, def_keys,
                           undef_transitions>>
       ELSE /\ \E o \in {add_from_object(TableState, object, name, version,
                              def,
                              IF is_dynamic(object) THEN sym
                              ELSE relobj_symbol(object, sym),
                              factory)} :
               LET existed == o.ret # NULL /\ o.ret <= Len(syms)
                   transition ==
                       /\ o.pc = "run"
                       /\ o.ret # NULL
                       /\ ~(existed /\ is_undefined(syms[o.ret]))
                       /\ is_undefined(o.st.syms[o.ret])
               IN /\ SetTable(o.pc, o.st)
                  /\ undef_transitions' =
                         undef_transitions + (IF transition THEN 1 ELSE 0)
                  /\ def_keys' = IF def /\ o.pc = "run" /\ o.ret # NULL
                                 THEN def_keys \cup {<<name, version>>}
                                 ELSE def_keys
                  /\ sympointers' =
                         IF o.pc = "run" /\ ~is_dynamic(object)
                         THEN sympointers \cup {<<<<name, version>>, o.ret>>}
                         ELSE sympointers
                  /\ Record([NoCall EXCEPT !.op = "add_from_object",
                               !.object = object, !.name = name,
                               !.version = version, !.def = def, !.sym = sym,
                               !.factory = factory, !.ret = o.ret,
                               !.end = o.pc])
            /\ namepool_' = namepool_ \cup {name}
                   \cup (IF version = NoVersion THEN {} ELSE {version})

\* The common end of the three define_* actions.
Defined(outcome, c) ==
    /\ \E d \in {outcome} :
          /\ SetTable(d.pc, d.st)
          /\ namepool_' = d.pool
          /\ Record([c EXCEPT !.ret = d.ret, !.note = d.note, !.end = d.pc])
    /\ UNCHANGED <<size_, offset_, output_count_, sympool, emitted, out_view,
                   cur, sympointers, first_endian, def_keys,
                   undef_transitions>>
    /\ UNCHANGED warn_vars

\* Symbol_table::define_in_output_data.
DefineInOutputData(name, od, offset_is_from_end, only_if_ref, factory) ==
    /\ pc = "run"
    /\ size_ = ElfSize
    /\ Defined(do_define_in_output_data(TableState, namepool_, name, od, 0, 0,
                   "OBJECT", "GLOBAL", "DEFAULT", 0, offset_is_from_end,
                   only_if_ref, factory),
               [NoCall EXCEPT !.op = "define_in_output_data", !.name = name,
                   !.where = od, !.from_end = offset_is_from_end,
                   !.only_if_ref = only_if_ref, !.factory = factory])

\* Symbol_table::define_in_output_segment.
DefineInOutputSegment(name, os, offset_base, only_if_ref, factory) ==
    /\ pc = "run"
    /\ size_ = ElfSize
    /\ Defined(do_define_in_output_segment(TableState, namepool_, name, os, 0,
                   0, "OBJECT", "GLOBAL", "DEFAULT", 0, offset_base,
                   only_if_ref, factory),
               [NoCall EXCEPT !.op = "define_in_output_segment",
                   !.name = name, !.where = os, !.base = offset_base,
                   !.only_if_ref = only_if_ref, !.factory = factory])

\* Symbol_table::define_as_constant.
DefineAsConstant(name, value, only_if_ref, factory) ==
    /\ pc = "run"
    /\ size_ = ElfSize
    /\ Defined(do_define_as_constant(TableState, namepool_, name, value, 0,
                   "OBJECT", "GLOBAL", "DEFAULT", 0, only_if_ref, factory),
               [NoCall EXCEPT !.op = "define_as_constant", !.name = name,
                   !.value = value, !.only_if_ref = only_if_ref,
                   !.factory = factory])

\* Symbol_table::finalize(off, pool).
Finalize(off) ==
    /\ pc \in {"run", "finalized"}
    /\ size_ = ElfSize
    /\ \E f \in {sized_finalize(TableState, off, sympool)} :
          /\ pc' = f.pc
          /\ IF f.pc = "finalized"
             THEN /\ \E n \in {note_warnings([TableState EXCEPT
                                                 !.syms = f.syms],
                                             namepool_, warnings_)} :
                        /\ syms' = n.syms
                        /\ warnings_' = n.warnings
                  /\ noting' = [noting EXCEPT !.returned = TRUE]
                  /\ sympool' = f.pool
                  /\ offset_' = f.offset
                  /\ output_count_' = f.count
                  /\ emitted' = f.order
             ELSE UNCHANGED <<syms, sympool, offset_, output_count_, emitted,
                              warnings_, noting>>
          /\ Record([NoCall EXCEPT !.op = "finalize", !.value = off,
                       !.ret = f.off, !.end = f.pc])
    /\ UNCHANGED <<registered, locks>>
    /\ UNCHANGED <<size_, table_, forwarders_, commons_, saw_undefined_,
                   namepool_, out_view, cur, sympointers, first_endian,
                   def_keys, undef_transitions>>

\* What no step of finalize changes once sized_finalize is done, nor
\* add_warning.
table_frame ==
    <<size_, table_, forwarders_, commons_, saw_undefined_, offset_,
      output_count_, sympool, emitted, out_view, cur, sympointers,
      first_endian, def_keys, undef_transitions>>

\* Warnings::add_warning(symtab, name, obj, shndx), called while the
\* objects are read.
AddWarning(name, obj, shndx) ==
    /\ pc = "run"
    /\ namepool_' = namepool_ \cup {name}
    /\ warnings_' = add_warning(warnings_, name, obj, shndx)
    /\ registered' = registered \cup {<<name, obj, shndx>>}
    /\ Record([NoCall EXCEPT !.op = "add_warning", !.name = name,
                 !.object = obj, !.value = shndx])
    /\ UNCHANGED <<pc, syms, locks, noting>>
    /\ UNCHANGED table_frame

\* Symbol_table::finalize up to the call of note_warnings, lines 963-972.
FinalizeBegin(off) ==
    /\ pc \in {"run", "finalized"}
    /\ size_ = ElfSize
    /\ \E f \in {sized_finalize(TableState, off, sympool)} :
          /\ pc' = IF f.pc = "finalized" THEN "noting" ELSE f.pc
          /\ IF f.pc = "finalized"
             THEN /\ syms' = f.syms
                  /\ sympool' = f.pool
                  /\ offset_' = f.offset
                  /\ output_count_' = f.count
                  /\ emitted' = f.order
                  /\ noting' = [noting EXCEPT !.todo = DOMAIN warnings_]
             ELSE UNCHANGED <<syms, sympool, offset_, output_count_, emitted,
                              noting>>
          /\ Record([NoCall EXCEPT !.op = "finalize", !.value = off,
                       !.ret = f.off,
                       !.end = IF f.pc = "finalized" THEN "noting"
                               ELSE f.pc])
    /\ UNCHANGED <<warnings_, registered, locks>>
    /\ UNCHANGED <<size_, table_, forwarders_, commons_, saw_undefined_,
                   namepool_, out_view, cur, sympointers, first_endian,
                   def_keys, undef_transitions>>

\* note_warnings, lines 1224-1240: the next warning is looked at; when it
\* applies the record is marked and the lock of the object taken.
NoteExamine ==
    /\ pc = "noting"
    /\ noting.phase = "idle"
    /\ noting.todo # {}
    /\ \E name \in {NextKey(noting.todo)} :
          IF warning_applies(TableState, namepool_, warnings_, name)
          THEN /\ syms' = set_has_warning(syms, namepool_, table_, name)
               /\ locks' = Task_locker_acquire(locks, warnings_[name].object)
               /\ noting' = [noting EXCEPT !.todo = @ \ {name},
                                           !.at = name, !.phase = "locked"]
          ELSE /\ noting' = [noting EXCEPT !.todo = @ \ {name}]
               /\ UNCHANGED <<syms, locks>>
    /\ UNCHANGED <<pc, namepool_, warnings_, registered, nops, last, hist>>
    /\ UNCHANGED table_frame

\* note_warnings, lines 1241-1244: the section is read and the text stored.
NoteRead ==
    /\ pc = "noting"
    /\ noting.phase = "locked"
    /\ warnings_' = set_text(warnings_, noting.at)
    /\ noting' = [noting EXCEPT !.phase = "read"]
    /\ UNCHANGED <<pc, syms, namepool_, registered, locks, nops, last, hist>>
    /\ UNCHANGED table_frame

\* note_warnings, line 1245: the block ends and the lock is released.
NoteRelease ==
    /\ pc = "noting"
    /\ noting.phase = "read"
    /\ locks' = Task_locker_release(locks, warnings_[noting.at].object)
    /\ noting' = [noting EXCEPT !.at = "none", !.phase = "idle"]
    /\ UNCHANGED <<pc, syms, namepool_, warnings_, registered, nops, last,
                   hist>>
    /\ UNCHANGED table_frame

\* note_warnings is through and finalize returns, line 974.
NoteReturn ==
    /\ pc = "noting"
    /\ noting.phase = "idle"
    /\ noting.todo = {}
    /\ pc' = "finalized"
    /\ noting' = [noting EXCEPT !.returned = TRUE]
    /\ last' = [last EXCEPT !.end = "finalized"]
    /\ UNCHANGED <<syms, namepool_, warnings_, registered, locks, nops, hist>>
    /\ UNCHANGED table_frame

\* Symbol_table::write_globals(target, sympool, of), called once finalize
\* has set offset_ and output_count_.
WriteGlobals ==
    /\ pc = "finalized"
    /\ size_ = ElfSize
    /\ \E w \in {sized_write_globals(TableState, output_count_)} :
          /\ pc' = IF w.pc = "run" THEN "finalized" ELSE w.pc
          /\ out_view' = w.view
          /\ Record([NoCall EXCEPT !.op = "write_globals",
                       !.ret = Len(w.view), !.end = w.pc])
    /\ UNCHANGED <<size_, table_, syms, forwarders_, commons_,
                   saw_undefined_, namepool_, offset_, output_count_,
                   sympool, emitted, cur, sympointers, first_endian,
                   def_keys, undef_transitions>>
    /\ UNCHANGED warn_vars

\* add_from_relobj and add_from_dynobj up to their loop, lines 437-448 and
\* 534-552: the object's size is compared with size_, and the size of a
\* versym table with count.
BeginObject(object, count, has_versym, versym_size) ==
    /\ pc = "run"
    /\ cur = NoObject
    /\ UNCHANGED warn_vars
    /\ has_versym => is_dynamic(object)
    /\ size_' = size_after(size_, object)
    /\ first_endian' = IF first_endian = "none" THEN Endian(object)
                       ELSE first_endian
    /\ \E ok \in {/\ sizes_agree(size_, object)
                   /\ ~(has_versym /\ versym_size \div 2 < count)} :
          /\ pc' = IF ok THEN "run" ELSE "exit"
          /\ cur' = IF ok
                    THEN [kind |-> IF is_dynamic(object) THEN "dyn" ELSE "rel",
                          object |-> object, left |-> count,
                          has_versym |-> has_versym]
                    ELSE cur
          /\ Record([NoCall EXCEPT
                       !.op = IF is_dynamic(object) THEN "add_from_dynobj"
                              ELSE "add_from_relobj",
                       !.object = object,
                       !.note = IF sizes_agree(size_, object)
                                THEN (IF ok THEN "begin" ELSE "few_versions")
                                ELSE "mixed_size",
                       !.end = IF ok THEN "run" ELSE "exit"])
    /\ UNCHANGED <<table_, syms, forwarders_, commons_, saw_undefined_,
                   namepool_, offset_, output_count_, sympool, emitted,
                   out_view, sympointers, def_keys, undef_transitions>>

\* The common end of an iteration of either loop.
Iterated(outcome, c) ==
    /\ \E o \in {outcome} :
          /\ SetTable(o.pc, o.st)
          /\ namepool_' = o.pool
          /\ sympointers' =
                 IF o.pc = "run" /\ cur.kind = "rel"
                 THEN sympointers \cup {<<o.key, o.ret>>} ELSE sympointers
          /\ cur' = IF o.pc = "run" /\ cur.left > 1
                    THEN [cur EXCEPT !.left = @ - 1]
                    ELSE IF o.pc = "run" THEN NoObject ELSE cur
          /\ def_keys' = IF o.def /\ o.pc = "run" /\ o.ret # NULL
                         THEN def_keys \cup {o.key} ELSE def_keys
          /\ Record([c EXCEPT !.name = o.key[1], !.version = o.key[2],
                        !.def = o.def, !.ret = o.ret, !.note = o.note,
                        !.end = o.pc])
    /\ UNCHANGED <<size_, offset_, output_count_, sympool, emitted, out_view,
                   first_endian, undef_transitions>>
    /\ UNCHANGED warn_vars

\* One iteration of the loop of add_from_relobj on the symbol sym whose
\* name is at offset st_name.
RelSymbol(st_name, sym, factory) ==
    /\ pc = "run"
    /\ cur.kind = "rel"
    /\ Iterated(relobj_iteration(TableState, namepool_, cur.object, st_name,
                                 sym, factory),
                [NoCall EXCEPT !.op = "relobj_symbol", !.object = cur.object,
                    !.sym = sym, !.factory = factory])

\* One iteration of the loop of add_from_dynobj on the symbol sym whose
\* name is at offset st_name and whose versym entry is vs.
DynSymbol(st_name, sym, vs, factory) ==
    /\ pc = "run"
    /\ cur.kind = "dyn"
    /\ Iterated(dynobj_iteration(TableState, namepool_, cur.object,
                                 cur.has_versym, vs, st_name, sym, factory),
                [NoCall EXCEPT !.op = "dynobj_symbol", !.object = cur.object,
                    !.sym = sym, !.factory = factory])

Next ==
    \/ \E object \in Objects, name \in Names,
          version \in Versions \cup {NoVersion}, def \in BOOLEAN,
          sym \in SymInputs, factory \in FactoryOutcomes :
          nops < MaxOps
          /\ AddFromObject(object, name, version, def, sym, factory)
    \/ \E name \in Names, od \in OutputDatas, from_end \in BOOLEAN,
          only_if_ref \in BOOLEAN, factory \in FactoryOutcomes :
          nops < MaxOps
          /\ DefineInOutputData(name, od, from_end, only_if_ref, factory)
    \/ \E name \in Names, os \in OutputSegments, base \in OffsetBases,
          only_if_ref \in BOOLEAN, factory \in FactoryOutcomes :
          nops < MaxOps
          /\ DefineInOutputSegment(name, os, base, only_if_ref, factory)
    \/ \E name \in Names, value \in ConstantValues, only_if_ref \in BOOLEAN,
          factory \in FactoryOutcomes :
          nops < MaxOps
          /\ DefineAsConstant(name, value, only_if_ref, factory)
    \/ \E off \in FinalizeOffsets : nops < MaxOps /\ Finalize(off)
    \/ nops < MaxOps /\ WriteGlobals

Spec == Init /\ [][Next]_vars

\* The same machine with fewer inputs and longer runs: references and
\* commons from either object, every symbol admitted by the target, and
\* constants defined whether referenced or not.
DeepSyms == {ElfSym("GLOBAL", SHN_UNDEF, 0, 0), ElfSym("GLOBAL", SHN_COMMON, 4, 4)}

NextDeep ==
    \/ \E object \in Objects, name \in Names,
          version \in Versions \cup {NoVersion}, def \in BOOLEAN,
          sym \in DeepSyms :
          nops < MaxDeepOps
          /\ AddFromObject(object, name, version, def, sym, "alloc")
    \/ \E name \in Names, value \in ConstantValues :
          nops < MaxDeepOps
          /\ DefineAsConstant(name, value, FALSE, "alloc")

SpecDeep == Init /\ [][NextDeep]_vars

\* The machine of the output pass: references, absolute symbols and
\* definitions in a section with and in a section without an output
\* section, every symbol admitted by the target, linker-defined symbols,
\* then finalize and write_globals.
OutSyms ==
    {ElfSym("GLOBAL", 1, 16, 4), ElfSym("GLOBAL", 2, 16, 4),
     ElfSym("GLOBAL", SHN_ABS, 5, 0), ElfSym("GLOBAL", SHN_UNDEF, 0, 0)}

NextOut ==
    \/ \E object \in Objects, name \in Names,
          version \in Versions \cup {NoVersion}, def \in BOOLEAN,
          sym \in OutSyms :
          nops < MaxOutOps
          /\ AddFromObject(object, name, version, def, sym, "alloc")
    \/ \E name \in Names, od \in OutputDatas, from_end \in BOOLEAN,
          only_if_ref \in BOOLEAN :
          nops < MaxOutOps
          /\ DefineInOutputData(name, od, from_end, only_if_ref, "alloc")
    \/ \E name \in Names, os \in OutputSegments, base \in OffsetBases,
          only_if_ref \in BOOLEAN :
          nops < MaxOutOps
          /\ DefineInOutputSegment(name, os, base, only_if_ref, "alloc")
    \/ \E name \in Names, value \in ConstantValues, only_if_ref \in BOOLEAN :
          nops < MaxOutOps
          /\ DefineAsConstant(name, value, only_if_ref, "alloc")
    \/ nops < MaxOutOps /\ Finalize(0)
    \/ nops < MaxOutOps /\ WriteGlobals

SpecOut == Init /\ [][NextOut]_vars

\* The ingestion machine: objects are read symbol by symbol.
RelSyms ==
    {ElfSym("GLOBAL", SHN_UNDEF, 0, 0), ElfSym("GLOBAL", 1, 16, 4),
     ElfSym("GLOBAL", 3, 16, 4), ElfSym("GLOBAL", SHN_ABS, 5, 0)}

DynSyms ==
    {ElfSym("GLOBAL", SHN_UNDEF, 0, 0), ElfSym("GLOBAL", 1, 16, 4),
     ElfSym("GLOBAL", SHN_ABS, 5, 0), ElfSym("LOCAL", 1, 16, 4)}

\* The versym entries: indices 0 to 5, and index 2 with the hidden bit.
VersymEntries == {0, 1, 2, 4, 5, VERSYM_HIDDEN + 2}

\* The sizes in bytes of a versym table.
VersymSizes == {2, 6}

NextIngest ==
    \/ \E object \in IngestObjects, count \in 1..MaxSyms,
          has_versym \in BOOLEAN, versym_size \in VersymSizes :
          nops < MaxIngestOps
          /\ BeginObject(object, count, has_versym, versym_size)
    \/ \E st_name \in 0..Len(RelNames), sym \in RelSyms,
          factory \in FactoryOutcomes :
          nops < MaxIngestOps /\ RelSymbol(st_name, sym, factory)
    \/ \E st_name \in 0..Len(DynNames), sym \in DynSyms,
          vs \in VersymEntries, factory \in FactoryOutcomes :
          nops < MaxIngestOps /\ DynSymbol(st_name, sym, vs, factory)

SpecIngest == Init /\ [][NextIngest]_vars

\* The warnings machine: finalize runs note_warnings step by step.
WarnNames == {"sym", "gets"}

WarnSyms == {ElfSym("GLOBAL", SHN_UNDEF, 0, 0), ElfSym("GLOBAL", 1, 16, 4)}

\* The sections add_warning is called with.
WarnSections == {5, 6}

NextWarn ==
    \/ \E object \in Objects, name \in WarnNames, sym \in WarnSyms :
          nops < MaxWarnOps
          /\ AddFromObject(object, name, NoVersion, FALSE, sym, "alloc")
    \/ \E name \in WarnNames, obj \in Objects, shndx \in WarnSections :
          nops < MaxWarnOps /\ AddWarning(name, obj, shndx)
    \/ \E name \in Names, value \in ConstantValues :
          nops < MaxWarnOps /\ DefineAsConstant(name, value, FALSE, "alloc")
    \/ nops < MaxWarnOps /\ FinalizeBegin(0)
    \/ NoteExamine
    \/ NoteRead
    \/ NoteRelease
    \/ NoteReturn

SpecWarn == Init /\ [][NextWarn]_vars

----------------------------------------------------------------------------
(* Properties. *)

IsPrefix(s, t) == Len(s) <= Len(t) /\ SubSeq(t, 1, Len(s)) = s

\* The calls made so far are exactly the first n calls of scenario sc.
InScenario(sc, n) == hist # Off /\ Len(hist) = n /\ Follows(sc, hist)

Lookup(name, version) == lookup(TableState, namepool_, name, version)

\* The records that are the value of some entry of the table.
TableRecords == {table_[k] : k \in DOMAIN table_} \ {NULL}

Occurrences(seq, x) == Cardinality({i \in DOMAIN seq : seq[i] = x})

\* C1: for every (name, version) that add_from_object stored with def,
\* lookup(name, NULL) and lookup(name, version) return the same record in
\* every later state.
DefaultVersionSharesRecord ==
    \A k \in def_keys : Lookup(k[1], NoVersion) = Lookup(k[1], k[2])

\* C2: no record that is the value of a table entry has the forwarder flag.
NoForwarderInTable ==
    \A r \in TableRecords : ~syms[r].is_forwarder_

\* C3, as claimed: after a relocatable object added sym unversioned (record
\* U) and a dynamic object added sym with version V1 and def, there is a
\* second record D, U is a forwarder to D, and both entries hold D.
CollisionMakesForwarder ==
    InScenario("forwarder_collision", 2) =>
        LET U == hist[1].ret
            D == hist[2].ret
        IN /\ D # U
           /\ syms[U].is_forwarder_
           /\ resolve_forwards(TableState, U) = D
           /\ table_[<<"sym", NoVersion>>] = D
           /\ table_[<<"sym", "V1">>] = D

\* C3, amended: in that scenario no second record is allocated and no
\* forwarder is made; the new (sym, V1) entry is pointed at U, so that
\* both entries hold U, which keeps its NULL version.
CollisionAliasesUnversioned ==
    InScenario("forwarder_collision", 2) =>
        LET U == hist[1].ret
        IN /\ hist[2].ret = U
           /\ Len(syms) = 1
           /\ ~syms[U].is_forwarder_
           /\ DOMAIN forwarders_ = {}
           /\ syms[U].version_ = NoVersion
           /\ DOMAIN table_ = {<<"sym", NoVersion>>, <<"sym", "V1">>}
           /\ table_[<<"sym", NoVersion>>] = U
           /\ table_[<<"sym", "V1">>] = U

CollisionScenarioDone == InScenario("forwarder_collision", 2)

\* C4: after a dynamic object added (sym, V1) with def and then without,
\* and a relocatable object added sym unversioned, lookup(sym, NULL) and
\* lookup(sym, V1) return the same record, its version is V1, there is no
\* forwarder, and one record was allocated.
DefaultAliasingOneRecord ==
    InScenario("default_aliasing", 3) =>
        LET r == Lookup("sym", NoVersion)
        IN /\ r # NULL
           /\ Lookup("sym", "V1") = r
           /\ syms[r].version_ = "V1"
           /\ DOMAIN forwarders_ = {}
           /\ \A i \in DOMAIN syms : ~syms[i].is_forwarder_
           /\ Len(syms) = 1

DefaultAliasingDone == InScenario("default_aliasing", 3)

\* C5: two distinct records that are values of table entries differ in
\* their own (name, version).
DistinctRecordsDistinctKeys ==
    \A r1, r2 \in TableRecords :
        r1 # r2 =>
            <<syms[r1].name_, syms[r1].version_>>
                # <<syms[r2].name_, syms[r2].version_>>

\* C6: no call changes the name or the version of an existing record.
NameVersionImmutable ==
    [][\A i \in DOMAIN syms :
          /\ syms'[i].name_ = syms[i].name_
          /\ syms'[i].version_ = syms[i].version_]_vars

\* C7: every COMMON record of the table is in commons_ exactly once.
CommonsHoldEachCommonOnce ==
    \A r \in TableRecords :
        is_common(syms[r]) => Occurrences(commons_, r) = 1

\* C8, as claimed: every record in commons_ is COMMON now.
CommonsAllCommon ==
    \A i \in DOMAIN commons_ : is_common(syms[commons_[i]])

\* C8, amended: commons_ is append-only.  A call appends at most one
\* record, one that is COMMON when the call returns, and removes none, so
\* a record that stops being COMMON stays in commons_.
CommonsAppendOnly ==
    [][/\ IsPrefix(commons_, commons_')
       /\ Len(commons_') <= Len(commons_) + 1
       /\ \A i \in DOMAIN commons_' \ DOMAIN commons_ :
             is_common(syms'[commons_'[i]])]_vars

CommonsHoldStaleRecord ==
    \E i \in DOMAIN commons_ : ~is_common(syms[commons_[i]])

\* C9: saw_undefined_ is the number of add_from_object calls that took
\* their record from not undefined to undefined.
SawUndefinedCountsTransitions == saw_undefined_ = undef_transitions

\* C10: after an object added sym undefined and define_in_output_data was
\* called for it with value 0, offset_is_from_end and only_if_ref, the same
\* record is IN_OUTPUT_DATA with that output data and offset_is_from_end,
\* and after finalize its value is the data's address plus its size.
EdataTakenOverAndFinalized ==
    /\ InScenario("linker_defined_edata", 2) \/ InScenario("linker_defined_edata", 3)
          => LET r == hist[1].ret
             IN /\ hist[2].ret = r
                /\ Len(syms) = 1
                /\ Lookup("sym", NoVersion) = r
                /\ syms[r].source_ = "IN_OUTPUT_DATA"
                /\ syms[r].output_data = hist[2].where
                /\ syms[r].offset_is_from_end
    /\ InScenario("linker_defined_edata", 3)
          => /\ pc = "finalized"
             /\ syms[hist[1].ret].value_ =
                   od_address(hist[2].where) + od_data_size(hist[2].where)

EdataScenarioDone == InScenario("linker_defined_edata", 3) /\ pc = "finalized"

\* The sources a define_* call can request.
DefineSources == {"IN_OUTPUT_DATA", "IN_OUTPUT_SEGMENT", "CONSTANT"}

\* This step is a define_* call for name, with this only_if_ref, that
\* requests the source src.
DefineStep(name, only_if_ref, src) ==
    \/ /\ src = "IN_OUTPUT_DATA"
       /\ \E od \in OutputDatas, from_end \in BOOLEAN,
             factory \in FactoryOutcomes :
             DefineInOutputData(name, od, from_end, only_if_ref, factory)
    \/ /\ src = "IN_OUTPUT_SEGMENT"
       /\ \E os \in OutputSegments, base \in OffsetBases,
             factory \in FactoryOutcomes :
             DefineInOutputSegment(name, os, base, only_if_ref, factory)
    \/ /\ src = "CONSTANT"
       /\ \E value \in ConstantValues, factory \in FactoryOutcomes :
             DefineAsConstant(name, value, only_if_ref, factory)

\* The name has no (name, NULL) record, or one that is not undefined.
NotReferenced(name) ==
    \/ Lookup(name, NoVersion) = NULL
    \/ ~is_undefined(syms[Lookup(name, NoVersion)])

\* C11: a define_* call with only_if_ref, for a name that has no
\* (name, NULL) entry or whose record there is not undefined, returns
\* having changed nothing: the table, every record, the forwarders, the
\* name pool, commons_ and saw_undefined_ are as before.
UnreferencedDefineChangesNothing ==
    [][\A name \in Names, src \in DefineSources :
          (NotReferenced(name) /\ DefineStep(name, TRUE, src))
             => /\ pc' = "run"
                /\ last'.ret = NULL
                /\ UNCHANGED <<table_, syms, forwarders_, namepool_,
                               commons_, saw_undefined_>>]_vars

\* A define_* call found the name defined already and left it alone.
UnreferencedDefineDone ==
    /\ last.note = "not_referenced"
    /\ Lookup("sym", NoVersion) # NULL

\* A FROM_OBJECT record defined in a section of a relocatable object.
RealDefinition(s) ==
    /\ s.source_ = "FROM_OBJECT"
    /\ s.shnum # SHN_UNDEF
    /\ s.shnum # SHN_COMMON
    /\ ~is_dynamic(s.object)

\* The fields a multiple-definition error must leave alone.
DefinitionFields(s) ==
    <<s.source_, s.value_, s.symsize_, s.type_, s.binding_, s.visibility_>>

\* The record r was re-initialised in place with source src.
Reinitialised(r, src) ==
    /\ pc' = "run"
    /\ last'.ret = r
    /\ syms'[r].source_ = src
    /\ Len(syms') = Len(syms)
    /\ table_' = table_

NoCallAfterError ==
    [][(last.note = "multiple_definition" \/ last.end = "exit")
          => UNCHANGED vars]_vars

\* C14: when add_from_object comes to make a new record (NAME/VERSION is
\* new, and with def NAME/NULL too) and the target's make_symbol returns
\* NULL, the call returns NULL and the table, the records, commons_ and
\* saw_undefined_ are as before the call.
FactoryRejectionRestoresTable ==
    [][\A object \in Objects, name \in Names,
          version \in Versions \cup {NoVersion}, def \in BOOLEAN,
          sym \in SymInputs :
          (/\ <<name, version>> \notin DOMAIN table_
           /\ def => <<name, NoVersion>> \notin DOMAIN table_
           /\ ~dynobj_ignores(object, sym)
           /\ AddFromObject(object, name, version, def, sym, "reject"))
             => /\ pc' = "run"
                /\ last'.ret = NULL
                /\ UNCHANGED <<table_, syms, forwarders_, commons_,
                               saw_undefined_>>]_vars

\* add_from_object returned NULL on a table that holds other entries.
FactoryRejectionDone ==
    /\ last.op = "add_from_object"
    /\ last.ret = NULL
    /\ last.end = "run"
    /\ last.note = "none"
    /\ DOMAIN table_ # {}
    /\ \A k \in DOMAIN table_ : table_[k] # NULL

\* C15: every entry of the table holds a record, never NULL.
EntriesNeverNull == \A k \in DOMAIN table_ : table_[k] # NULL

\* C16: no record of the table has binding LOCAL.
NoLocalBindingStored ==
    \A r \in TableRecords : syms[r].binding_ # "LOCAL"

\* A record finalize relocates: defined in a section of a relocatable
\* object that has an output section.
InOutputSection(s) ==
    /\ RealDefinition(s)
    /\ s.shnum < SHN_LORESERVE
    /\ output_section(s.object, s.shnum).os # "NULL"

\* C17: the first finalize gives every such record of the table the value
\* it had plus the address of its output section plus its offset in it.
FinalizeRelocatesOnce ==
    [][(pc = "run" /\ pc' = "finalized")
          => \A r \in TableRecords :
                InOutputSection(syms[r])
                   => syms'[r].value_ =
                         syms[r].value_
                         + output_section(syms[r].object, syms[r].shnum).address
                         + output_section(syms[r].object, syms[r].shnum).secoff]_vars

\* C18: after finalize, output_count_ is the number of records of the
\* table that have not been skipped as discarded.
OutputCountIsRecordCount ==
    pc = "finalized"
       => output_count_ =
             Cardinality({r \in TableRecords :
                             FinalValue(syms[r]).act # "skip"})

\* C19: a second finalize from the same start offset leaves
\* output_count_, the returned offset and every record's value as the
\* first left them.
FinalizeTwiceSame ==
    [][(pc = "finalized" /\ last.op = "finalize" /\ last'.op = "finalize"
           /\ pc' = "finalized" /\ offset_' = offset_)
          => /\ output_count_' = output_count_
             /\ last'.ret = last.ret
             /\ \A i \in DOMAIN syms : syms'[i].value_ = syms[i].value_]_vars

\* C20: write_globals, run after finalize, writes output_count_ entries
\* and none past the end of its view; the entries it writes are those
\* finalize counted, in the same order.
WriteGlobalsFillsView ==
    /\ pc # "oob"
    /\ last.op = "write_globals"
          => /\ pc = "finalized"
             /\ Len(out_view) = output_count_
             /\ Len(out_view) * SymSize <= output_count_ * SymSize
             /\ [i \in DOMAIN out_view |-> out_view[i].key] = emitted

\* write_globals wrote an entry and skipped another.
WriteGlobalsDone ==
    /\ last.op = "write_globals"
    /\ Len(out_view) >= 1
    /\ Len(out_view) < Cardinality(DOMAIN table_)

\* The section index of a FROM_OBJECT record is one finalize must reject:
\* reserved, and none of SHN_ABS, SHN_COMMON, SHN_UNDEF.
UnsupportedSection(s) ==
    /\ s.source_ = "FROM_OBJECT"
    /\ s.shnum >= SHN_LORESERVE
    /\ s.shnum \notin {SHN_ABS, SHN_COMMON, SHN_UNDEF}

\* C21: finalize ends the process exactly when a record of the table has
\* an unsupported section index; a COMMON record and a record of a dynamic
\* object do not make it fail.
FinalizeFailsOnlyOnUnsupported ==
    [][(pc = "run" /\ last'.op = "finalize" /\ EntriesNeverNull)
          => (pc' = "exit"
                <=> \E r \in TableRecords : UnsupportedSection(syms[r]))]_vars

\* C30: every FROM_OBJECT record whose object is dynamic has in_dyn_ set.
DynamicRecordsInDyn ==
    \A i \in DOMAIN syms :
        (syms[i].source_ = "FROM_OBJECT" /\ syms[i].object # "none"
            /\ is_dynamic(syms[i].object))
           => syms[i].in_dyn_

\* A record a relocatable object created is now owned by a dynamic object:
\* a definition from the dynamic object overrode it.
DynamicOverrideDone ==
    /\ last.op = "add_from_object"
    /\ nops >= 2
    /\ Len(syms) = 1
    /\ syms[1].source_ = "FROM_OBJECT"
    /\ is_dynamic(syms[1].object)
    /\ syms[1].shnum # SHN_UNDEF
    /\ saw_undefined_ >= 1

\* The section index C29 gives for the output entry of record s.
ClaimedShndx(s) ==
    IF s.source_ = "FROM_OBJECT"
    THEN (IF is_dynamic(s.object) THEN SHN_UNDEF
          ELSE IF s.shnum \in {SHN_UNDEF, SHN_ABS} THEN s.shnum
          ELSE output_section(s.object, s.shnum).out_shndx)
    ELSE IF s.source_ = "IN_OUTPUT_DATA" THEN od_out_shndx(s.output_data)
    ELSE SHN_ABS

\* C29: every entry write_globals writes has the section index
\* ClaimedShndx of its record; the first finalize gives the value 0 to
\* the records of dynamic objects and to undefined records, and leaves
\* the value of an SHN_ABS record and of a CONSTANT record as it was.
OutputIndexAndValueRules ==
    [][/\ (last'.op = "write_globals" /\ nops' # nops)
          => \A i \in DOMAIN out_view' :
                out_view'[i].st_shndx =
                    ClaimedShndx(syms[table_[out_view'[i].key]])
       /\ (pc = "run" /\ pc' = "finalized")
          => \A r \in TableRecords :
                /\ (syms[r].source_ = "FROM_OBJECT"
                       /\ (is_dynamic(syms[r].object)
                              \/ syms[r].shnum = SHN_UNDEF))
                      => syms'[r].value_ = 0
                /\ (\/ syms[r].source_ = "CONSTANT"
                    \/ /\ syms[r].source_ = "FROM_OBJECT"
                       /\ ~is_dynamic(syms[r].object)
                       /\ syms[r].shnum = SHN_ABS)
                      => syms'[r].value_ = syms[r].value_]_vars

\* write_globals wrote the entry of a definition of a dynamic object and
\* the entry of a linker-defined symbol.
OutputIndexDone ==
    /\ last.op = "write_globals"
    /\ \E i \in DOMAIN out_view :
          /\ out_view[i].st_shndx = SHN_UNDEF
          /\ syms[table_[out_view[i].key]].shnum # SHN_UNDEF
    /\ \E i \in DOMAIN out_view :
          /\ out_view[i].st_shndx = SHN_ABS
          /\ syms[table_[out_view[i].key]].source_ # "FROM_OBJECT"

----------------------------------------------------------------------------
(* Reading input objects. *)

\* C22: an object that is being read has the word size and the byte order
\* of the first object read, and size_ is the size of that first object.
MixedObjectsRejected ==
    cur # NoObject =>
        /\ obj_size(cur.object) = size_
        /\ Endian(cur.object) = first_endian

\* The pointer a holder of ptr uses: resolve_forwards is applied to a
\* forwarder.
Forwarded(ptr) ==
    IF syms[ptr].is_forwarder_ THEN resolve_forwards(TableState, ptr) ELSE ptr

\* C23: every pointer stored in sympointers is NULL or, after
\* resolve_forwards, the record the table holds under the symbol's key.
SympointersAreTableRecords ==
    pc = "run" =>
        \A e \in sympointers :
            \/ e[2] = NULL
            \/ /\ e[1] \in DOMAIN table_
               /\ table_[e[1]] = Forwarded(e[2])

\* The version index of a versym entry.
VersionIndex(vs) == vs % (VERSYM_VERSION + 1)

\* Nothing was interned and no record was inserted or updated, and the link
\* is over.
TerminatedUntouched ==
    /\ pc' = "exit"
    /\ UNCHANGED <<table_, syms, forwarders_, commons_, saw_undefined_,
                   namepool_>>

\* The version index of the entry vs is outside the version map, or its
\* entry of the map is NULL.
BadVersion(vs) ==
    \/ VersionIndex(vs) >= Len(VersionMap)
    \/ VersionMap[VersionIndex(vs) + 1] = NullStr

\* C24: a symbol whose st_name is outside the string table ends the link
\* with nothing interned or inserted; in a dynamic object so do a versym
\* table shorter than count, a version index outside the version map and a
\* NULL entry of the version map.
BadInputTerminates ==
    [][/\ \A sym \in RelSyms, factory \in FactoryOutcomes :
             (cur.kind = "rel" /\ RelSymbol(Len(RelNames), sym, factory))
                => TerminatedUntouched
       /\ \A sym \in DynSyms, vs \in VersymEntries,
             factory \in FactoryOutcomes :
             (cur.kind = "dyn" /\ DynSymbol(Len(DynNames), sym, vs, factory))
                => TerminatedUntouched
       /\ \A st_name \in 0..(Len(DynNames) - 1), sym \in DynSyms,
             vs \in VersymEntries, factory \in FactoryOutcomes :
             (/\ cur.kind = "dyn"
              /\ cur.has_versym
              /\ BadVersion(vs)
              /\ DynSymbol(st_name, sym, vs, factory))
                => pc' = "exit"
       /\ \A object \in {"dyn"}, count \in 1..MaxSyms,
             versym_size \in VersymSizes :
             (/\ versym_size \div 2 < count
              /\ BeginObject(object, count, TRUE, versym_size))
                => pc' = "exit" /\ cur' = NoObject]_vars

\* C24 as the code has it: the symbols of local binding of a dynamic object
\* are passed over before st_name is looked at, and the version index is
\* looked up in the version map only when it is neither VER_NDX_LOCAL nor
\* VER_NDX_GLOBAL.
BadInputTerminatesUnlessSkipped ==
    [][/\ \A sym \in RelSyms, factory \in FactoryOutcomes :
             (cur.kind = "rel" /\ RelSymbol(Len(RelNames), sym, factory))
                => TerminatedUntouched
       /\ \A sym \in DynSyms, vs \in VersymEntries,
             factory \in FactoryOutcomes :
             (/\ cur.kind = "dyn"
              /\ sym.st_bind # "LOCAL"
              /\ DynSymbol(Len(DynNames), sym, vs, factory))
                => TerminatedUntouched
       /\ \A st_name \in 0..(Len(DynNames) - 1), sym \in DynSyms,
             vs \in VersymEntries, factory \in FactoryOutcomes :
             (/\ cur.kind = "dyn"
              /\ cur.has_versym
              /\ sym.st_bind # "LOCAL"
              /\ VersionIndex(vs) \notin {VER_NDX_LOCAL, VER_NDX_GLOBAL}
              /\ BadVersion(vs)
              /\ DynSymbol(st_name, sym, vs, factory))
                => /\ pc' = "exit"
                   /\ UNCHANGED <<table_, syms, forwarders_, commons_,
                                  saw_undefined_>>
       /\ \A object \in {"dyn"}, count \in 1..MaxSyms,
             versym_size \in VersymSizes :
             (/\ versym_size \div 2 < count
              /\ BeginObject(object, count, TRUE, versym_size))
                => pc' = "exit" /\ cur' = NoObject]_vars

\* A dynamic object that had added a symbol ended the link on a version
\* index whose entry of the version map is NULL.
BadVersionTerminated ==
    /\ pc = "exit"
    /\ last.op = "dynobj_symbol"
    /\ last.note = "no_version_name"
    /\ DOMAIN table_ # {}

\* C25: a symbol of a dynamic object with local binding or, with a versym
\* table, of version index VER_NDX_LOCAL leaves the table, commons_,
\* saw_undefined_ and the name pool as they were.
SkippedDynamicSymbolChangesNothing ==
    [][\A st_name \in 0..(Len(DynNames) - 1), sym \in DynSyms,
          vs \in VersymEntries, factory \in FactoryOutcomes :
          (/\ cur.kind = "dyn"
           /\ \/ sym.st_bind = "LOCAL"
              \/ cur.has_versym /\ VersionIndex(vs) = VER_NDX_LOCAL
           /\ DynSymbol(st_name, sym, vs, factory))
             => /\ pc' = "run"
                /\ UNCHANGED <<table_, syms, forwarders_, commons_,
                               saw_undefined_, namepool_>>]_vars

\* A symbol of version index VER_NDX_LOCAL whose name the pool does not
\* hold was passed over in an object that had added another.
SkippedDynamicSymbolDone ==
    /\ pc = "run"
    /\ last.op = "dynobj_symbol"
    /\ last.note = "version_local"
    /\ DOMAIN table_ # {}
    /\ \E name \in {DynNames[i] : i \in DOMAIN DynNames} :
          name \notin namepool_

\* What the claim has add_from_dynobj pass for the symbol sym called name
\* with the versym entry vs.
DynamicPassed(name, sym, has_versym, vs) ==
    IF \/ ~has_versym
       \/ VersionIndex(vs) = VER_NDX_GLOBAL
       \/ sym.st_shndx = SHN_ABS /\ VersionMap[VersionIndex(vs) + 1] = name
    THEN <<name, NoVersion, FALSE>>
    ELSE <<name, VersionMap[VersionIndex(vs) + 1],
           (vs \div VERSYM_HIDDEN) % 2 = 0 /\ sym.st_shndx # SHN_UNDEF>>

\* C26: the name, version and def add_from_dynobj passes to add_from_object
\* for a symbol it does not pass over.
DynamicKeyAndDef ==
    [][\A st_name \in 0..(Len(DynNames) - 1), sym \in DynSyms,
          vs \in VersymEntries, factory \in FactoryOutcomes :
          (/\ cur.kind = "dyn"
           /\ DynSymbol(st_name, sym, vs, factory)
           /\ last'.note \in {"added", "rejected"})
             => last'.passed =
                   DynamicPassed(DynNames[st_name + 1], sym, cur.has_versym,
                                 vs)]_vars

\* A dynamic object added a default definition of a version: the record is
\* also the one under the name without a version.
DynamicDefaultAdded ==
    /\ pc = "run"
    /\ last.op = "dynobj_symbol"
    /\ last.note = "added"
    /\ last.passed = <<"sym", "V1", TRUE>>
    /\ table_[<<"sym", NoVersion>>] = last.ret

\* What the claim has add_from_relobj pass for each symbol string.
RelocatablePassed(str) ==
    CASE str = "sym" -> <<"sym", NoVersion, FALSE>>
      [] str = "sym@V1" -> <<"sym", "V1", FALSE>>
      [] str = "sym@@V1" -> <<"sym", "V1", TRUE>>
      [] str = "sym@@V2" -> <<"sym", "V2", TRUE>>

\* C27: the key and def a symbol string of a relocatable object is added
\* under: name@@ver also takes the key of the name without a version,
\* name@ver leaves that key alone.
RelocatableKeyAndDef ==
    [][\A st_name \in 0..(Len(RelNames) - 1), sym \in RelSyms,
          factory \in FactoryOutcomes :
          (/\ cur.kind = "rel"
           /\ RelSymbol(st_name, sym, factory)
           /\ pc' = "run"
           /\ last'.note = "added")
             => \E want \in {RelocatablePassed(RelNames[st_name + 1])} :
                   /\ last'.passed = want
                   /\ table_'[<<want[1], want[2]>>] = last'.ret
                   /\ want[3] => table_'[<<want[1], NoVersion>>] = last'.ret
                   /\ (~want[3] /\ want[2] # NoVersion) =>
                         IF <<want[1], NoVersion>> \in DOMAIN table_
                         THEN table_'[<<want[1], NoVersion>>]
                                 = table_[<<want[1], NoVersion>>]
                         ELSE <<want[1], NoVersion>> \notin DOMAIN table_']_vars

\* name@@ver was added: the record is under (name, ver) and under the name
\* without a version, and name@ver had been added before.
RelocatableDefaultAdded ==
    /\ pc = "run"
    /\ last.op = "relobj_symbol"
    /\ last.note = "added"
    /\ last.passed = <<"sym", "V2", TRUE>>
    /\ table_[<<"sym", NoVersion>>] = last.ret
    /\ table_[<<"sym", "V2">>] = last.ret
    /\ <<"sym", "V1">> \in DOMAIN table_
    /\ table_[<<"sym", "V1">>] # last.ret

\* A real section of the object that is not included.
Discarded(object, sym) ==
    /\ sym.st_shndx # SHN_UNDEF
    /\ sym.st_shndx < SHN_LORESERVE
    /\ ~is_section_included(object, sym.st_shndx)

\* The state and the result after add_from_object was called for the string
\* at st_name with the symbol sym as it is.
PassedAs(st_name, sym, factory) ==
    With(RelocatablePassed(RelNames[st_name + 1]),
         LAMBDA want :
           add_from_object(TableState, cur.object, want[1], want[2], want[3],
                           sym, factory))

\* C28: a symbol of a section that is not included is merged as the same
\* symbol with st_shndx SHN_UNDEF: a record made from it is undefined, and
\* an undefined record it is merged into stays undefined unless another
\* record is merged into it as well; every other symbol is merged as it is.
DiscardedSectionIsUndefined ==
    [][\A st_name \in 0..(Len(RelNames) - 1), sym \in RelSyms,
          factory \in FactoryOutcomes :
          (cur.kind = "rel" /\ RelSymbol(st_name, sym, factory))
             => \E o \in {PassedAs(st_name,
                                   IF Discarded(cur.object, sym)
                                   THEN [sym EXCEPT !.st_shndx = SHN_UNDEF]
                                   ELSE sym,
                                   factory)} :
                   /\ pc' = o.pc
                   /\ last'.ret = o.ret
                   /\ table_' = o.st.table_
                   /\ syms' = o.st.syms
                   /\ commons_' = o.st.commons_
                   /\ saw_undefined_' = o.st.saw_undefined_
                   /\ (Discarded(cur.object, sym) /\ pc' = "run"
                         /\ last'.ret # NULL) =>
                         IF last'.ret \in DOMAIN syms
                         THEN (/\ is_undefined(syms[last'.ret])
                               /\ forwarders_' = forwarders_)
                                 => is_undefined(syms'[last'.ret])
                         ELSE /\ syms'[last'.ret].shnum = SHN_UNDEF
                              /\ syms'[last'.ret].value_ = sym.st_value
                              /\ syms'[last'.ret].symsize_ = sym.st_size]_vars

\* A symbol was added that stands for a record without a definition while
\* an object had a definition of it in a section that is not included.
DiscardedSectionDone ==
    /\ pc = "run"
    /\ last.op = "relobj_symbol"
    /\ last.note = "added"
    /\ last.ret # NULL
    /\ syms[last.ret].shnum = SHN_UNDEF
    /\ syms[last.ret].value_ = 16
    /\ syms[last.ret].symsize_ = 4

----------------------------------------------------------------------------
(* Scenarios and the forwarder map. *)

\* C33: after a COMMON symbol of size 4 was added without a version, a
\* COMMON symbol of size 8 of the same name leaves one record, COMMON, of
\* size 8, and commons_ of length 1.
CommonCoalescing ==
    [][\A factory \in FactoryOutcomes :
          (/\ nops = 1
           /\ DOMAIN table_ = {<<"sym", NoVersion>>}
           /\ Len(syms) = 1
           /\ is_common(syms[1])
           /\ syms[1].symsize_ = 4
           /\ commons_ = <<1>>
           /\ AddFromObject("rel", "sym", NoVersion, FALSE,
                            ElfSym("GLOBAL", SHN_COMMON, 8, 8), factory))
             => /\ pc' = "run"
                /\ DOMAIN table_' = {<<"sym", NoVersion>>}
                /\ table_'[<<"sym", NoVersion>>] = 1
                /\ Len(syms') = 1
                /\ is_common(syms'[1])
                /\ syms'[1].symsize_ = 8
                /\ commons_' = <<1>>]_vars

\* Two COMMON symbols were added under the name without a version and the
\* record has the larger size.
CommonCoalescingDone ==
    /\ pc = "run"
    /\ nops = 2
    /\ last.op = "add_from_object"
    /\ DOMAIN table_ = {<<"sym", NoVersion>>}
    /\ Len(syms) = 1
    /\ is_common(syms[1])
    /\ syms[1].symsize_ = 8
    /\ commons_ = <<1>>

\* C34: no add_from_object and no define_* call ends in a failed assertion.
NoAssertionFails ==
    last.op \in {"add_from_object", "define_in_output_data",
                 "define_in_output_segment", "define_as_constant"}
        => pc # "abort"

\* The records with the forwarder flag.
Forwarders == {f \in DOMAIN syms : syms[f].is_forwarder_}

\* C35: resolve_forwards of a record with the forwarder flag is a record
\* without it.
ResolveForwardsSurvives ==
    \A f \in Forwarders :
        /\ resolve_forwards(TableState, f) # NULL
        /\ resolve_forwards(TableState, f) \notin Forwarders

\* C36: the records with the forwarder flag are the keys of forwarders_,
\* the flag is never cleared and no entry of forwarders_ is removed or
\* changed.
ForwardersAppendOnly ==
    /\ [](Forwarders = DOMAIN forwarders_)
    /\ [][/\ Forwarders \subseteq {f \in DOMAIN syms' : syms'[f].is_forwarder_}
          /\ \A f \in DOMAIN forwarders_ :
                f \in DOMAIN forwarders_' /\ forwarders_'[f] = forwarders_[f]]_vars

\* A record became a forwarder, an entry of the table still holds it, and
\* a define_as_constant call was made after that.
ForwarderOutlived ==
    /\ pc = "run"
    /\ Forwarders # {}
    /\ \E k \in DOMAIN table_ : table_[k] \in Forwarders
    /\ last.op = "define_as_constant"
    /\ last.ret # NULL

----------------------------------------------------------------------------
(* Warnings. *)

\* A warning was registered for the name of record r by the object that
\* owns it, and the name without a version is looked up as r.
WarningRegisteredFor(r) ==
    \E w \in registered :
        /\ lookup(TableState, namepool_, w[1], NoVersion) = r
        /\ syms[r].source_ = "FROM_OBJECT"
        /\ syms[r].object = w[2]

\* The warning table holds, for the name of r, the contents of a section
\* that the owner of r registered for it.
WarningTextRead(r) ==
    /\ syms[r].name_ \in DOMAIN warnings_
    /\ \E w \in registered :
          /\ w[1] = syms[r].name_
          /\ w[2] = syms[r].object
          /\ warnings_[w[1]].text = section_contents(w[2], w[3])

\* C31: after finalize a record has has_warning exactly when a warning was
\* registered for it, and then the warning table holds the text and the
\* assertions of issue_warning hold.
WarningsNoted ==
    pc = "finalized" =>
        \A r \in DOMAIN syms :
            /\ syms[r].has_warning_ <=> WarningRegisteredFor(r)
            /\ syms[r].has_warning_ =>
                  /\ WarningTextRead(r)
                  /\ issue_warning_asserts(TableState, warnings_, r)

\* The texts of the warning table.
WarningTexts == [n \in DOMAIN warnings_ |-> warnings_[n].text]

\* Where and when a lock may be held.
LockDiscipline ==
    /\ Cardinality(locks) <= 1
    /\ locks # {} =>
          /\ pc = "noting"
          /\ noting.phase \in {"locked", "read"}
          /\ locks = {warnings_[noting.at].object}
    /\ noting.phase = "idle" => locks = {}
    /\ pc = "finalized" => locks = {}

\* C37: at most one lock is held, only in the block that reads the section
\* and stores the text, none when the next warning is looked at or when
\* finalize has returned; once finalize has returned no text changes.
NoteWarningsLocking ==
    /\ []LockDiscipline
    /\ [][noting.returned => WarningTexts' = WarningTexts]_vars

\* finalize returned after note_warnings took and released the locks of two
\* objects, one for each of two warnings.
TwoWarningsNoted ==
    /\ pc = "finalized"
    /\ locks = {}
    /\ \A n \in WarnNames :
          /\ n \in DOMAIN warnings_
          /\ warnings_[n].text # NoText
    /\ warnings_["sym"].object # warnings_["gets"].object

----------------------------------------------------------------------------
(* Writing and reading back. *)

\* An empty symbol table.
EmptyTable ==
    [table_ |-> EmptyMap, syms |-> <<>>, forwarders_ |-> EmptyMap,
     commons_ |-> <<>>, saw_undefined_ |-> 0]

\* The record add_from_relobj makes in an empty table of the written entry
\* e, read as a symbol of the object "out" whose name is the string that
\* st_name stands for.
ReadBack(e) ==
    With(relobj_add(EmptyTable, {}, "out", e.st_name,
                    [st_bind |-> e.st_bind, st_shndx |-> e.st_shndx,
                     st_value |-> e.st_value, st_size |-> e.st_size,
                     st_type |-> e.st_type,
                     st_visibility |-> e.st_visibility,
                     st_nonvis |-> e.st_nonvis],
                    "alloc"),
         LAMBDA o : o.st.syms[o.ret])

\* C32: every entry write_globals wrote, read back by add_from_relobj into
\* an empty table, makes a record with the name, version, type, binding,
\* visibility, nonvis, size and value of the record it was written for, and
\* with the section index that was written.
WriteReadRoundTrip ==
    (last.op = "write_globals" /\ pc = "finalized") =>
        \A i \in DOMAIN out_view :
            \E back \in {ReadBack(out_view[i])},
               rec \in {syms[table_[out_view[i].key]]} :
                /\ back.name_ = rec.name_
                /\ back.version_ = rec.version_
                /\ back.type_ = rec.type_
                /\ back.binding_ = rec.binding_
                /\ back.visibility_ = rec.visibility_
                /\ back.nonvis_ = rec.nonvis_
                /\ back.symsize_ = rec.symsize_
                /\ back.value_ = rec.value_
                /\ back.shnum = out_view[i].st_shndx
====
